---- MODULE Spec2Model ----
(***************************************************************************)
(* Model of jonwraymond/toolruntime: the direct tool gateway (call and     *)
(* chain quotas, reserve/refund accounting, call recording) and the        *)
(* runtime router (profile -> backend dispatch, unsafe denial, trace       *)
(* harvesting).                                                            *)
(*                                                                         *)
(* The gateway's methods are split at their mutex boundaries: every        *)
(* g.mu.Lock() ... g.mu.Unlock() section is one atomic step, and the code  *)
(* that runs between two sections (the call into the tool runner) belongs  *)
(* to the step of the section that follows it.                             *)
(***************************************************************************)
EXTENDS Integers, Sequences, FiniteSets, TLC

\* ------------------------------------------------------------------ bounds
\* Largest value of Config.MaxToolCalls / Config.MaxChainSteps explored.
MaxLimit == 2
\* Longest chain handed to RunChain.
MaxSteps == 2
\* Number of calls admitted by the gateway in one behaviour.
MaxCalls == 2
\* How many step results more than len(steps) the runner may hand back.
MaxExtra == 1

\* Number of request ids a proxy gateway issues in one behaviour.
MaxRequests == 2

\* Number of options applied to one spec builder before Build.
MaxOptions == 3

\* How many times an error is wrapped on its way to the engine adapter.
MaxWrap == 2

\* Concurrent callers of one gateway instance.
Procs == {"p1", "p2"}
\* Tool identifiers.
Tools == {"a", "b"}

\* Concurrent callers of DefaultRuntime.Execute.
Execs == {"e1"}
\* Security profiles a request or a registration names ("" = none given).
ProfileDev == "dev"
ProfileStandard == "standard"
Profiles == {ProfileDev, ProfileStandard}
\* Backend kinds.
BackendUnsafeHost == "unsafe_host"
BackendDocker == "docker"
\* The backends the router is given to register: the host-subprocess
\* backend and the container backend.
Backends == {"unsafe", "docker"}
NoBackend == "none"

\* The operations of a tool gateway, by the type of the message the proxy
\* gateway sends for them.
\* MsgSearchTools, MsgListNamespaces, MsgDescribeTool, MsgListToolExamples,
\* MsgRunTool and MsgRunChain.
MsgRunChain == "run_chain"
GatewayOps ==
    {"search_tools", "list_namespaces", "describe_tool", "list_tool_examples",
     "run_tool", MsgRunChain}
\* The types of the messages that answer a request.
MsgResponse == "response"
MsgError == "error"

\* ---------------------------------------------------------- the tool runner
\* The runner is an external collaborator.  The one modelled here fails tool
\* "b" and stamps its backend kind on the results of tool "a" only, so that
\* both outcomes of every test RunTool and RunChain make on a result occur.
RunnerFails(id) == id = "b"
RunnerKind(id) == IF id = "a" THEN "local" ELSE ""

\* ------------------------------------------------------------ pure helpers
Min(a, b) == IF a < b THEN a ELSE b

\* The chains RunChain is called with (lists of ChainStep.ToolID): the chains
\* of up to MaxSteps steps that alternate between the two tools.
ChainInputs == {[i \in 1..n |-> IF i % 2 = 1 THEN "a" ELSE "b"] : n \in 0..MaxSteps}

\* The step results runner.RunChain hands back when it returns n of them: one
\* per step, and results beyond the last step repeat the last step's.
RunnerStepResults(steps, n) ==
    [i \in 1..n |-> LET id == steps[Min(i, Len(steps))]
                    IN  [err |-> RunnerFails(id), kind |-> RunnerKind(id)]]

\* A RunTool limit check that is off by one.
ToolLimitReachedOffByOne(count, max) == max > 0 /\ count > max

\* RunTool's limit check: g.maxToolCalls > 0 && g.callCount >= g.maxToolCalls
ToolLimitReached(count, max) == max > 0 /\ count >= max

\* A chain-step check that is off by one.
ChainStepLimitOffByOne(n, max) == max > 0 /\ n > max + 1

\* RunChain's step check: g.maxChainSteps > 0 && len(steps) > g.maxChainSteps
ChainStepLimitExceeded(n, max) == max > 0 /\ n > max

\* A room check that asks for one free slot only, whatever the chain's length.
ChainLimitReachedOneSlot(count, reserved, max) == max > 0 /\ count >= max

\* A room check that forgets the slots already taken.
ChainLimitIgnoresCount(count, reserved, max) == max > 0 /\ reserved > max

\* RunChain's room check: g.maxToolCalls > 0 && g.callCount+reserved > g.maxToolCalls
ChainLimitReached(count, reserved, max) == max > 0 /\ count + reserved > max

\* RunChain's count of executed steps from the runner's answer.
Executed(nresults, err, reserved) ==
    LET e0 == IF nresults = 0 /\ ~err THEN reserved ELSE nresults
    IN  IF e0 > reserved THEN reserved ELSE e0

\* History: the number of steps of a chain of `reserved` steps the runner ran,
\* told from its answer of n step results and err.  No results and no error
\* means it ran them all.
StepsRun(n, err, reserved) ==
    IF n = 0 /\ ~err THEN reserved ELSE Min(n, reserved)

\* A refund that gives nothing back.
RefundNone(count, reserved, executed) == count

\* RunChain's refund: callCount -= reserved - executed, clamped at zero.
Refund(count, reserved, executed) ==
    IF count - (reserved - executed) < 0 THEN 0 ELSE count - (reserved - executed)

\* The record RunTool appends.  inv and idx are history fields: the admission
\* ticket of the call and the step index (0 for RunTool).
ToolRecord(id, err, kind, inv) ==
    [tool |-> id, errorOp |-> IF err THEN "run" ELSE "", kind |-> kind,
     inv |-> inv, idx |-> 0]

\* The record RunChain appends for step i.
ChainRecord(steps, results, i, inv) ==
    [tool |-> steps[i],
     errorOp |-> IF i <= Len(results) /\ results[i].err THEN "chain" ELSE "",
     kind |-> IF i <= Len(results) THEN results[i].kind ELSE "",
     inv |-> inv, idx |-> i]

\* Records appended last step first.
ChainRecordsReversed(steps, results, executed, inv) ==
    [i \in 1..executed |-> ChainRecord(steps, results, executed + 1 - i, inv)]

\* Records appended for every step asked for, run or not.
ChainRecordsAll(steps, results, executed, inv) ==
    [i \in 1..Len(steps) |-> ChainRecord(steps, results, i, inv)]

\* The records RunChain appends, in one critical section.
ChainRecords(steps, results, executed, inv) ==
    [i \in 1..executed |-> ChainRecord(steps, results, i, inv)]

\* ------------------------------------------------------------------- state
VARIABLES
    maxToolCalls,   \* Gateway.maxToolCalls
    maxChainSteps,  \* Gateway.maxChainSteps
    callCount,      \* Gateway.callCount
    toolCalls,      \* Gateway.toolCalls
    pc,             \* where each caller is inside RunTool / RunChain
    cur,            \* the locals of each caller's call in flight
    ret,            \* history: the outcome of the latest call that returned
    nextInv,        \* history: number of calls admitted so far
    runnerCalls,    \* history: number of calls made into the tool runner
    toolOk,         \* history: RunTool calls that returned without error
    initiated       \* history: tool invocations initiated through the gateway

VARIABLES
    backends,           \* DefaultRuntime.backends
    denyUnsafeProfiles, \* DefaultRuntime.denyUnsafeProfiles
    defaultProfile,     \* DefaultRuntime.defaultProfile
    rpc,                \* where each caller is inside DefaultRuntime.Execute
    rloc,               \* the request and locals of each Execute in flight
    rres                \* what each caller's latest Execute returned

VARIABLES
    bcfg,               \* the configuration the backends were built with
    bpc,                \* where the caller is inside a backend's Execute
    bcall,              \* the request and context of the backend call in flight
    bfx,                \* history: what the latest backend call has done so far
    bret                \* what the latest backend call returned

VARIABLES
    closed,             \* proxy Gateway.closed
    connClosed,         \* has the connection been closed?
    requestID,          \* proxy Gateway.requestID
    pending,            \* proxy Gateway.pending: the ids that have a channel
    slot,               \* the buffer of the response channel made for each id
    wire,               \* the ids of the messages sent on the connection
    ppc,                \* where each caller is inside a proxy operation
    pcall,              \* the locals of each caller's request in flight
    pret,               \* what each caller's latest proxy operation returned
    dpc,                \* where the connection handler is in DeliverResponse
    dmsg,               \* the message DeliverResponse is delivering
    dret,               \* what the latest DeliverResponse returned
    cpc,                \* where the closer is inside Close
    accepted,           \* history: deliveries accepted, per id
    closeDone           \* history: has a Close call returned?

gwVars == <<maxToolCalls, maxChainSteps, callCount, toolCalls, pc, cur, ret,
            nextInv, runnerCalls, toolOk, initiated>>

rtVars == <<backends, denyUnsafeProfiles, defaultProfile, rpc, rloc, rres>>

bkVars == <<bcfg, bpc, bcall, bfx, bret>>

VARIABLES
    builder,            \* SpecBuilder.spec, the spec under construction
    nopts,              \* how many options the builder has been given
    built,              \* what Build returned
    handed              \* what the container backend's buildSpec returned

cbVars == <<builder, nopts, built, handed>>

VARIABLES
    apc,                \* where the engine adapter's Execute is
    alimit,             \* params.MaxToolCalls of the adapter's execution
    acalls,             \* invocations the wrapped Tools received during it
    agw,                \* what the latest call of the tools gateway returned,
                        \* "called" while the wrapped Tools have it
    aerr,               \* the error on its way from the runtime to the adapter
    acause,             \* history: the kind of the innermost cause of aerr
    aret                \* what Engine.Execute returned

adVars == <<apc, alimit, acalls, agw, aerr, acause, aret>>

VARIABLES
    rsince              \* history: per Execute, the invocations the gateway
                        \* already had on record when Execute was called

hsVars == <<rsince>>

pxVars == <<closed, connClosed, requestID, pending, slot, wire, ppc, pcall,
            pret, dpc, dmsg, dret, cpc, accepted, closeDone>>

vars == <<gwVars, rtVars, bkVars, pxVars, cbVars, adVars, hsVars>>

NoCall == [op |-> "none"]

GatewayInit ==
    /\ maxToolCalls \in 0..MaxLimit
    /\ maxChainSteps \in 0..MaxLimit
    /\ callCount = 0
    /\ toolCalls = <<>>
    /\ pc = [p \in Procs |-> "idle"]
    /\ cur = [p \in Procs |-> NoCall]
    /\ ret = [op |-> "none", status |-> "none"]
    /\ nextInv = 0
    /\ runnerCalls = 0
    /\ toolOk = 0
    /\ initiated = 0

\* ------------------------------------------------------ the runtime router
\* Limits.Validate: the first negative field makes the limits invalid.
LimitsValidate(l) ==
    IF l.maxToolCalls < 0 \/ l.maxChainSteps < 0 \/ l.cpuQuotaMillis < 0
       \/ l.memoryBytes < 0 \/ l.pidsMax < 0 \/ l.diskBytes < 0
    THEN "invalid-limits" ELSE "none"

\* A validation that does not look at the gateway.
ValidateSkipsGateway(req) ==
    IF req.code = "" THEN "missing-code" ELSE LimitsValidate(req.limits)

\* A validation that looks at the code before the gateway.
ValidateCodeFirst(req) ==
    IF req.code = "" THEN "missing-code"
    ELSE IF req.gateway = "nil" THEN "missing-gateway"
    ELSE LimitsValidate(req.limits)

\* ExecuteRequest.Validate.
Validate(req) ==
    IF req.gateway = "nil" THEN "missing-gateway"
    ELSE IF req.code = "" THEN "missing-code"
    ELSE LimitsValidate(req.limits)

\* Limits with MaxToolCalls = m and every other cap left at zero.
LimitsOf(m) ==
    [maxToolCalls |-> m, maxChainSteps |-> 0, cpuQuotaMillis |-> 0,
     memoryBytes |-> 0, pidsMax |-> 0, diskBytes |-> 0]

\* The requests Execute is called with: well-formed ones, whose gateway is
\* the direct gateway (which can report its trace) or one that cannot, one
\* request for each way of being malformed, and one malformed in every way.
ValidRequests ==
    [profile : Profiles \cup {""}, code : {"x"}, gateway : {"direct", "plain"},
     limits : {LimitsOf(m) : m \in 0..MaxLimit}]

Requests ==
    ValidRequests \cup
    {[profile |-> "", code |-> "x", gateway |-> "nil", limits |-> LimitsOf(0)],
     [profile |-> "", code |-> "", gateway |-> "direct", limits |-> LimitsOf(0)],
     [profile |-> "", code |-> "x", gateway |-> "direct", limits |-> LimitsOf(-1)],
     [profile |-> ProfileDev, code |-> "", gateway |-> "nil",
      limits |-> LimitsOf(-1)]}

\* Backend.Kind of each backend implementation: the kind its package names.
Kind(b) ==
    CASE b = "unsafe" -> BackendUnsafeHost
      [] b \in {"docker", "docker.placeholder"} -> BackendDocker
      [] b \in {"containerd", "ContainerdBackend"} -> "containerd"
      [] b \in {"kubernetes", "KubernetesBackend"} -> "kubernetes"
      [] b \in {"gvisor", "GVisorBackend"} -> "gvisor"
      [] b \in {"wasm", "wasm.placeholder"} -> "wasm"
      [] OTHER -> b

\* Execute's profile resolution.
EffectiveProfile(req, default) ==
    IF req.profile = "" THEN default ELSE req.profile

\* A context check that lets a cancelled handle through.
CtxErrIgnored(cancelled) == "none"

\* ctx.Err() at the entry of an operation: the error of a cancelled handle.
CtxErr(cancelled) == IF cancelled THEN "cancelled" ELSE "none"

\* A lookup that falls back on the backend of another profile.
LookupBackendOrAny(map, profile) ==
    IF profile \in DOMAIN map /\ map[profile] # NoBackend THEN map[profile]
    ELSE IF \E q \in DOMAIN map : map[q] # NoBackend
    THEN map[CHOOSE q \in DOMAIN map : map[q] # NoBackend]
    ELSE NoBackend

\* backend, ok := r.backends[profile]; NoBackend stands for !ok.
LookupBackend(map, profile) ==
    IF profile \in DOMAIN map THEN map[profile] ELSE NoBackend

\* A router that never denies.
UnsafeDeniedNever(isDenied, kind) == FALSE

\* Execute's denial test: isDenied && backend.Kind() == BackendUnsafeHost
UnsafeDenied(isDenied, kind) == isDenied /\ kind = BackendUnsafeHost

\* Does the request's gateway implement toolCallRecorder?
IsRecorder(gateway) == gateway = "direct"

\* How backend b's Execute can end for a request the router has validated:
\* without error ("none") or with one of the errors of its return statements.
\* The host-subprocess backend: the opt-in refusal, a timeout, a failed
\* subprocess.  The container backend: no client, ctx.Err(), the failed
\* ping, the resolver's error, buildSpec's errors (an empty image reference,
\* a CPU quota whose scaling to microseconds wrapped negative), the runner's
\* error.
BackendOutcomes(b) ==
    IF b = "unsafe"
    THEN {"none", "opt-in-required", "timeout", "subprocess-failed"}
    ELSE {"none", "client-not-configured", "cancelled", "daemon-unavailable",
          "resolver-error", "image is required",
          "cpu quota cannot be negative", "runner-error"}

Outcomes == BackendOutcomes("unsafe") \cup BackendOutcomes("docker")

\* What backend b's Execute returns when it ends with err.  Neither backend
\* fills in ToolCalls.  The host-subprocess backend names itself in every
\* result that comes back from executeSubprocess, the container backend in
\* its success and in the result of a failed client.Run; every other return
\* is the empty ExecuteResult{}.  The container backend reports the
\* tool-call limit as enforced on every success.
BackendExecute(b, err) ==
    [err |-> err,
     toolCalls |-> <<>>,
     kind |-> IF b = "unsafe"
              THEN (IF err = "opt-in-required" THEN "" ELSE Kind(b))
              ELSE (IF err \in {"none", "runner-error"} THEN Kind(b) ELSE ""),
     enforcedToolCalls |-> (err = "none" /\ b = "docker")]

\* The request Execute hands to backend.Execute: the caller's request as it
\* came in; the resolved profile stays in a local of Execute.
BackendRequest(req, profile) == req

\* A harvest that takes the gateway's trace newest record first.
HarvestNewestFirst(result, gateway, trace) ==
    IF Len(result.toolCalls) = 0 /\ IsRecorder(gateway)
    THEN [result EXCEPT !.toolCalls =
            [i \in 1..Len(trace) |-> trace[Len(trace) + 1 - i]]]
    ELSE result

\* Execute's harvest after a successful backend call: a result without tool
\* calls gets the trace of a gateway that can report one.
Harvest(result, gateway, trace) ==
    IF Len(result.toolCalls) = 0 /\ IsRecorder(gateway)
    THEN [result EXCEPT !.toolCalls = trace]
    ELSE result

NoResult == [err |-> "pending"]

EmptyResult(err) ==
    [err |-> err, toolCalls |-> <<>>, kind |-> "", enforcedToolCalls |-> FALSE,
     limits |-> LimitsOf(0)]

RouterInit ==
    /\ backends = [p \in Profiles |-> NoBackend]
    /\ denyUnsafeProfiles \in SUBSET Profiles
    /\ defaultProfile \in Profiles \cup {""}
    /\ rpc = [e \in Execs |-> "idle"]
    /\ rloc = [e \in Execs |-> NoCall]
    /\ rres = [e \in Execs |-> NoResult]
    /\ rsince = [e \in Execs |-> {}]

\* The router as the gateway's specification leaves it: never called.
RouterUnused ==
    /\ backends = [p \in Profiles |-> NoBackend]
    /\ denyUnsafeProfiles = {}
    /\ defaultProfile = ""
    /\ rpc = [e \in Execs |-> "idle"]
    /\ rloc = [e \in Execs |-> NoCall]
    /\ rres = [e \in Execs |-> NoResult]
    /\ rsince = [e \in Execs |-> {}]

\* ------------------------------------------------------------- errors
\* An error is the chain errors.Unwrap walks, outermost link first: context
\* wrappers ("RuntimeError", "wrapError") and the sentinel errors.New made,
\* which unwraps to nothing.  The nil error is the empty chain <<>>.  The
\* orchestrator's sentinels ErrLimitExceeded and ErrCodeExecution are the
\* strings "limit-exceeded" and "execution-failed".

\* errors.Is(err, target): some link of the chain equals target.
ErrorsIs(err, target) == \E i \in 1..Len(err) : err[i] = target

\* &RuntimeError{Err: err, ...}: Unwrap returns err.
RuntimeErrorOf(err) == <<"RuntimeError">> \o err

\* fmt.Errorf("%w: %v", sentinel, cause): Unwrap returns the sentinel; of the
\* cause only the text is kept.
Errorf(sentinel, cause) == <<"wrapError", sentinel>>

\* ----------------------------------------------------------- the backends
\* The side effects of a backend call: a warning logged, a temporary
\* workspace created and still on disk, a subprocess started, the daemon
\* pinged, the image resolved, the container runner called.
NoEffects ==
    [warned |-> FALSE, created |-> FALSE, workspace |-> FALSE,
     subprocess |-> FALSE, pinged |-> FALSE, resolved |-> FALSE,
     runner |-> FALSE]

\* The configurations of the host-subprocess backend (requireOptIn, logger)
\* and of the container backend: client, healthChecker (absent, working or
\* failing) and imageResolver (absent, returning a reference, failing, or
\* returning the empty reference without error).
BackendInit ==
    /\ bcfg \in [requireOptIn : BOOLEAN, logger : BOOLEAN, client : BOOLEAN,
                 health : {"none", "ok", "down"},
                 resolver : {"none", "ok", "fail", "empty"}]
    /\ bpc = "idle"
    /\ bcall = NoCall
    /\ bfx = NoEffects
    /\ bret = NoResult

\* The backends as the other specifications leave them: never called directly.
BackendUnused ==
    /\ bcfg = [requireOptIn |-> FALSE, logger |-> FALSE, client |-> TRUE,
               health |-> "none", resolver |-> "none"]
    /\ bpc = "idle"
    /\ bcall = NoCall
    /\ bfx = NoEffects
    /\ bret = NoResult

\* A backend result that carries only an error: the empty ExecuteResult{}
\* and the error.  The backends return ErrMissingGateway, ErrMissingCode,
\* ErrOptInRequired, ErrClientNotConfigured, ErrMissingSandboxBackend,
\* ctx.Err() and the errors of the resolver, of buildSpec and of the client
\* as they are: the chain is the error alone.  They return invalid-limits
\* (Limits.Validate), subprocess-failed, timeout, the packages'
\* Err...NotAvailable and daemon-unavailable as
\* fmt.Errorf("%w: ...", sentinel): a wrapper whose Unwrap gives the
\* sentinel; what follows the colon is text.
BackendError(err) ==
    [err |-> err, toolCalls |-> <<>>, kind |-> "", enforcedToolCalls |-> FALSE,
     chain |-> IF err = "none" THEN <<>>
               ELSE IF err \in {"invalid-limits", "subprocess-failed",
                                "timeout", "not-available",
                                "daemon-unavailable"}
               THEN Errorf(err, <<>>)
               ELSE <<err>>]

\* The container backend's profile: the request's, or standard when empty.
DockerProfile(req) ==
    IF req.profile = "" THEN ProfileStandard ELSE req.profile

\* What a request's metadata can hold under the key unsafeOptIn: nothing, a
\* boolean, or a value of another type (the string "true").
OptInFlags == {"absent", "bool:true", "bool:false", "string:true"}

\* An opt-in test that takes any value that reads as true.
OptedInLoosely(flag) == flag \in {"bool:true", "string:true"}

\* optIn, ok := req.Metadata["unsafeOptIn"].(bool); ok && optIn.
OptedIn(flag) == flag = "bool:true"

\* UnsafeBackend.Execute up to the call of executeSubprocess: validation, the
\* opt-in test, the warning, the timeout.  The handle is not looked at.
\* optIn is the metadata's value under unsafeOptIn.
UnsafeExecute(req, optIn, cancelled) ==
    /\ bpc = "idle"
    /\ IF Validate(req) # "none"
       THEN /\ bret' = BackendError(Validate(req))
            /\ bfx' = NoEffects
            /\ UNCHANGED <<bpc, bcall>>
       ELSE IF bcfg.requireOptIn /\ ~OptedIn(optIn)
       THEN /\ bret' = BackendError("opt-in-required")
            /\ bfx' = NoEffects
            /\ UNCHANGED <<bpc, bcall>>
       ELSE /\ bfx' = [NoEffects EXCEPT !.warned = bcfg.logger]
            /\ bpc' = "unsafe_mkdir"
            /\ bcall' = [op |-> "execute", backend |-> "unsafe", req |-> req,
                         cancelled |-> cancelled]
            /\ bret' = NoResult
    /\ UNCHANGED bcfg

\* An executeSubprocess without the deferred RemoveAll on the file-write
\* failure path.
UnsafeWorkspaceLeaks(mkdirOk, writeOk) ==
    /\ bpc = "unsafe_mkdir"
    /\ IF ~mkdirOk
       THEN /\ bret' = [BackendError("subprocess-failed") EXCEPT
                          !.kind = BackendUnsafeHost]
            /\ bpc' = "idle"
            /\ bcall' = NoCall
            /\ bfx' = bfx
       ELSE IF ~writeOk
       THEN /\ bret' = [BackendError("subprocess-failed") EXCEPT
                          !.kind = BackendUnsafeHost]
            /\ bpc' = "idle"
            /\ bcall' = NoCall
            /\ bfx' = [bfx EXCEPT !.created = TRUE, !.workspace = TRUE]
       ELSE /\ bpc' = "unsafe_run"
            /\ bfx' = [bfx EXCEPT !.created = TRUE, !.workspace = TRUE]
            /\ UNCHANGED <<bcall, bret>>
    /\ UNCHANGED bcfg

\* executeSubprocess: os.MkdirTemp and the two os.WriteFile calls.  A failure
\* returns subprocess-failed; the deferred RemoveAll removes the workspace.
UnsafeWorkspace(mkdirOk, writeOk) ==
    /\ bpc = "unsafe_mkdir"
    /\ IF ~mkdirOk
       THEN /\ bret' = [BackendError("subprocess-failed") EXCEPT
                          !.kind = BackendUnsafeHost]
            /\ bpc' = "idle"
            /\ bcall' = NoCall
            /\ bfx' = bfx
       ELSE IF ~writeOk
       THEN /\ bret' = [BackendError("subprocess-failed") EXCEPT
                          !.kind = BackendUnsafeHost]
            /\ bpc' = "idle"
            /\ bcall' = NoCall
            /\ bfx' = [bfx EXCEPT !.created = TRUE, !.workspace = FALSE]
       ELSE /\ bpc' = "unsafe_run"
            /\ bfx' = [bfx EXCEPT !.created = TRUE, !.workspace = TRUE]
            /\ UNCHANGED <<bcall, bret>>
    /\ UNCHANGED bcfg

\* executeSubprocess: cmd.Run() and the return.  A command whose context is
\* already done is not started; a context that is done when the command
\* comes back with an error makes the error a timeout.  ok tells whether the
\* command came back without error, fired whether the context ended while
\* the subprocess ran.
UnsafeRun(ok, fired) ==
    /\ bpc = "unsafe_run"
    /\ LET err == IF bcall.cancelled THEN "timeout"
                  ELSE IF ok THEN "none"
                  ELSE IF fired THEN "timeout"
                  ELSE "subprocess-failed"
       IN  /\ bret' = BackendExecute("unsafe", err)
                       @@ [chain |-> BackendError(err).chain]
           /\ bfx' = [bfx EXCEPT !.subprocess = ~bcall.cancelled,
                                 !.workspace = FALSE]
    /\ bpc' = "idle"
    /\ bcall' = NoCall
    /\ UNCHANGED bcfg

\* The container backend's Execute up to the health check: validation, the
\* client test, the timeout, the context check, the profile.
DockerExecute(req, cancelled) ==
    /\ bpc = "idle"
    /\ bfx' = NoEffects
    /\ IF Validate(req) # "none"
       THEN /\ bret' = BackendError(Validate(req))
            /\ UNCHANGED <<bpc, bcall>>
       ELSE IF ~bcfg.client
       THEN /\ bret' = BackendError("client-not-configured")
            /\ UNCHANGED <<bpc, bcall>>
       ELSE IF CtxErr(cancelled) # "none"
       THEN /\ bret' = BackendError(CtxErr(cancelled))
            /\ UNCHANGED <<bpc, bcall>>
       ELSE /\ bpc' = "docker_ping"
            /\ bcall' = [op |-> "execute", backend |-> "docker", req |-> req,
                         cancelled |-> cancelled,
                         profile |-> DockerProfile(req)]
            /\ bret' = NoResult
    /\ UNCHANGED bcfg

\* ---------------------------------------------------- the container spec
\* Command, working directory, environment, timeout and labels play no part
\* in validation or in the posture of a spec and are left out of the record.
MountTypeBind == "bind"
MountTypeVolume == "volume"
MountTypeTmpfs == "tmpfs"

\* The path of the seccomp profile a backend is configured with.
SeccompPath == "/etc/seccomp.json"
NonRootUser == "nobody:nogroup"

ZeroSecurity ==
    [user |-> "", readOnlyRootfs |-> FALSE, networkMode |-> "",
     seccompProfile |-> "", privileged |-> FALSE]

ZeroResources ==
    [memoryBytes |-> 0, cpuQuota |-> 0, pidsLimit |-> 0, diskBytes |-> 0]

\* ContainerSpec{}: the zero spec Build returns with an error.
ZeroSpec ==
    [image |-> "", mounts |-> <<>>, resources |-> ZeroResources,
     security |-> ZeroSecurity]

\* NewSpecBuilder(image).
NewSpecBuilder(image) == [ZeroSpec EXCEPT !.image = image]

\* Mount{Type, Source, Target}.
MountOf(type, source, target) ==
    [type |-> type, source |-> source, target |-> target]

\* The builder's options, as functions of the spec under construction.
WithMount(spec, m) == [spec EXCEPT !.mounts = Append(@, m)]
WithBindMount(spec, source, target) ==
    WithMount(spec, MountOf(MountTypeBind, source, target))
WithTmpfs(spec, target) ==
    WithMount(spec, MountOf(MountTypeTmpfs, "", target))
WithResources(spec, r) == [spec EXCEPT !.resources = r]
WithMemory(spec, bytes) == [spec EXCEPT !.resources.memoryBytes = bytes]
WithCPU(spec, quota) == [spec EXCEPT !.resources.cpuQuota = quota]
WithPidsLimit(spec, limit) == [spec EXCEPT !.resources.pidsLimit = limit]
WithSecurity(spec, sec) == [spec EXCEPT !.security = sec]
WithUser(spec, user) == [spec EXCEPT !.security.user = user]
WithReadOnlyRootfs(spec, readOnly) ==
    [spec EXCEPT !.security.readOnlyRootfs = readOnly]
WithNetworkMode(spec, mode) == [spec EXCEPT !.security.networkMode = mode]
WithNoNetwork(spec) == WithNetworkMode(spec, "none")
WithSeccompProfile(spec, path) ==
    [spec EXCEPT !.security.seccompProfile = path]

\* SecuritySpec.Validate.
SecurityValidate(sec) ==
    IF sec.privileged THEN "security-violation"
    ELSE IF sec.networkMode = "host" THEN "security-violation"
    ELSE "none"

\* ResourceSpec.Validate.  Its errors, like those of Mount.Validate and the
\* image test, are plain errors that wrap no sentinel; they are named here by
\* their message.
ResourceValidate(r) ==
    IF r.memoryBytes < 0 THEN "memory cannot be negative"
    ELSE IF r.cpuQuota < 0 THEN "cpu quota cannot be negative"
    ELSE IF r.pidsLimit < 0 THEN "pids limit cannot be negative"
    ELSE IF r.diskBytes < 0 THEN "disk limit cannot be negative"
    ELSE "none"

\* Mount.Validate.  A tmpfs mount is taken with or without a source.
MountValidate(m) ==
    IF m.target = "" THEN "target is required"
    ELSE IF m.type = MountTypeBind
    THEN (IF m.source = "" THEN "source is required for bind mounts"
          ELSE "none")
    ELSE IF m.type = MountTypeVolume
    THEN (IF m.source = "" THEN "source is required for volume mounts"
          ELSE "none")
    ELSE IF m.type = MountTypeTmpfs THEN "none"
    ELSE IF m.type = "" THEN "mount type is required"
    ELSE "unknown mount type"

\* The error of the first mount that does not validate.
RECURSIVE MountsValidate(_)
MountsValidate(ms) ==
    IF ms = <<>> THEN "none"
    ELSE IF MountValidate(Head(ms)) # "none" THEN MountValidate(Head(ms))
    ELSE MountsValidate(Tail(ms))

\* ContainerSpec.Validate: image, security, resources, mounts, in this order.
SpecValidate(spec) ==
    IF spec.image = "" THEN "image is required"
    ELSE IF SecurityValidate(spec.security) # "none"
    THEN SecurityValidate(spec.security)
    ELSE IF ResourceValidate(spec.resources) # "none"
    THEN ResourceValidate(spec.resources)
    ELSE MountsValidate(spec.mounts)

\* SpecBuilder.Build as a function: the error and the spec it returns.
SpecBuild(spec) ==
    IF SpecValidate(spec) # "none"
    THEN [err |-> SpecValidate(spec), spec |-> ZeroSpec]
    ELSE [err |-> "none", spec |-> spec]

\* errors.Is against the package's sentinels: only ErrSecurityViolation is
\* ever wrapped by a validation error.
ErrorKind(err) ==
    IF err \in {"none", "security-violation"} THEN err ELSE "unclassified"

\* NewSpecBuilder(image), with or without an image reference.
BuilderInit ==
    /\ builder \in {NewSpecBuilder(image) : image \in {"", "alpine:latest"}}
    /\ nopts = 0
    /\ built = NoResult
    /\ handed = NoResult

\* The builder as the other specifications leave it: never used.
BuilderUnused ==
    /\ builder = ZeroSpec
    /\ nopts = 0
    /\ built = NoResult
    /\ handed = NoResult

\* One option applied to the builder, giving the spec next.
Option(next) ==
    /\ built = NoResult
    /\ nopts < MaxOptions
    /\ builder' = next
    /\ nopts' = nopts + 1
    /\ UNCHANGED <<built, handed>>

\* SpecBuilder.Build.
Build ==
    /\ built = NoResult
    /\ built' = SpecBuild(builder)
    /\ UNCHANGED <<builder, nopts, handed>>

\* ContainerOptions whose user is left empty (root) outside the standard
\* and hardened profiles.
ContainerOptionsRootInDev(profile, limits, seccompPath) ==
    [user |-> IF profile \in {"standard", "hardened"} THEN NonRootUser
              ELSE "",
     networkDisabled |-> profile \in {"standard", "hardened"},
     readOnlyRootfs |-> profile \in {"standard", "hardened"},
     seccompProfile |-> IF profile = "hardened" THEN seccompPath ELSE "",
     memoryLimit |-> limits.memoryBytes,
     cpuQuota |-> limits.cpuQuotaMillis * 1000,
     pidsLimit |-> limits.pidsMax]

\* Backend.containerOptions: the posture of the profile and the caps of the
\* limits, CPU millis scaled to microseconds.  The product is exact for the
\* limits drawn here; in the code it is an int64 product, which wraps
\* negative above MaxInt64 / 1000 millis and then fails ResourceSpec.Validate.
ContainerOptions(profile, limits, seccompPath) ==
    [user |-> NonRootUser,
     networkDisabled |-> profile \in {"standard", "hardened"},
     readOnlyRootfs |-> profile \in {"standard", "hardened"},
     seccompProfile |-> IF profile = "hardened" THEN seccompPath ELSE "",
     memoryLimit |-> IF limits.memoryBytes > 0 THEN limits.memoryBytes ELSE 0,
     cpuQuota |-> IF limits.cpuQuotaMillis > 0
                  THEN limits.cpuQuotaMillis * 1000 ELSE 0,
     pidsLimit |-> IF limits.pidsMax > 0 THEN limits.pidsMax ELSE 0]

\* A network mode that is bridge whatever the options say.
NetworkModeAlwaysBridge(opts) == "bridge"

\* Backend.networkMode.
NetworkMode(opts) == IF opts.networkDisabled THEN "none" ELSE "bridge"

\* Backend.buildSpec: the builder given the security and the resources of
\* the container options, and built.
BuildSpec(image, limits, profile, seccompPath) ==
    LET opts == ContainerOptions(profile, limits, seccompPath)
    IN  SpecBuild(
          WithResources(
            WithSecurity(NewSpecBuilder(image),
                         [user |-> opts.user,
                          readOnlyRootfs |-> opts.readOnlyRootfs,
                          networkMode |-> NetworkMode(opts),
                          seccompProfile |-> opts.seccompProfile,
                          privileged |-> FALSE]),
            [memoryBytes |-> opts.memoryLimit, cpuQuota |-> opts.cpuQuota,
             pidsLimit |-> opts.pidsLimit, diskBytes |-> 0]))

ProfileHardened == "hardened"

\* The container backend's Execute from the profile default to buildSpec,
\* for a backend configured with seccompPath and an image reference that is
\* the configured one or what the resolver returned.  A spec that is built
\* is the one handed to client.Run.
DockerBuildSpec(image, limits, reqProfile, seccompPath) ==
    LET profile == IF reqProfile = "" THEN ProfileStandard ELSE reqProfile
        res == BuildSpec(image, limits, profile, seccompPath)
    IN  /\ handed' = [err |-> res.err, spec |-> res.spec, profile |-> profile,
                      reqProfile |-> reqProfile,
                      limits |-> limits, seccompPath |-> seccompPath,
                      image |-> image]
        /\ UNCHANGED <<builder, nopts, built>>

\* The image reference buildSpec is given: the configured one (New puts a
\* default in place of an empty name), or what the resolver returned, which
\* may be the empty string.
DockerImage(resolver) ==
    IF resolver = "none" THEN "toolruntime-sandbox:latest"
    ELSE IF resolver = "ok" THEN "alpine:latest"
    ELSE ""

\* The optional health check: healthChecker.Ping(ctx) and its return.  A
\* failed ping returns fmt.Errorf("%w: %v", ErrDaemonUnavailable, err), err
\* being the checker's "ping-failed".  A backend without a health checker
\* goes on without a ping.
DockerPing ==
    /\ bpc = "docker_ping"
    /\ bfx' = [bfx EXCEPT !.pinged = (bcfg.health # "none")]
    /\ IF bcfg.health = "down"
       THEN /\ bret' = [BackendError("daemon-unavailable") EXCEPT
                          !.chain = Errorf("daemon-unavailable",
                                           <<"ping-failed">>)]
            /\ bpc' = "idle"
            /\ bcall' = NoCall
       ELSE /\ bpc' = "docker_resolve"
            /\ UNCHANGED <<bcall, bret>>
    /\ UNCHANGED bcfg

\* The optional image resolution, imageResolver.Resolve(ctx, image) and its
\* return, and buildSpec.  The resolver's error is returned as it is.  A
\* spec that does not build ends the execution with Build's error and the
\* empty result, before client.Run.
DockerResolve ==
    /\ bpc = "docker_resolve"
    /\ bfx' = [bfx EXCEPT !.resolved = (bcfg.resolver # "none")]
    /\ IF bcfg.resolver = "fail"
       THEN /\ bret' = BackendError("resolver-error")
            /\ bpc' = "idle"
            /\ bcall' = NoCall
       ELSE LET res == BuildSpec(DockerImage(bcfg.resolver), bcall.req.limits,
                                 bcall.profile, SeccompPath)
            IN  IF res.err # "none"
                THEN /\ bret' = BackendError(res.err)
                     /\ bpc' = "idle"
                     /\ bcall' = NoCall
                ELSE /\ bpc' = "docker_run"
                     /\ UNCHANGED <<bcall, bret>>
    /\ UNCHANGED bcfg

\* client.Run and the return.  The client's error is returned as it is.
DockerRun(ok) ==
    /\ bpc = "docker_run"
    /\ LET err == IF ok THEN "none" ELSE "runner-error"
       IN  bret' = BackendExecute("docker", err)
                     @@ [chain |-> BackendError(err).chain]
    /\ bfx' = [bfx EXCEPT !.runner = TRUE]
    /\ bpc' = "idle"
    /\ bcall' = NoCall
    /\ UNCHANGED bcfg

\* --------------------------------------------------- the other backends
\* The implementations of Execute that look at the cancellation handle
\* before they validate the request: containerd.Backend, kata.Backend and
\* kubernetes.Backend open with `if err := ctx.Err(); err != nil`.
HandleFirstBackends == {"containerd", "kata", "kubernetes"}

\* The implementations whose Execute checks its arguments and configuration
\* and then returns a result naming the backend together with the package's
\* "not fully implemented" error.  Besides the three above: the earlier
\* ContainerdBackend, KubernetesBackend and GVisorBackend, gvisor.Backend,
\* firecracker.Backend, the wasm and docker backends without a client,
\* remote.Backend and temporal.Backend.
PlaceholderBackends ==
    HandleFirstBackends
    \cup {"ContainerdBackend", "KubernetesBackend", "GVisorBackend", "gvisor",
          "firecracker", "wasm.placeholder", "docker.placeholder", "remote",
          "temporal"}

\* Execute of placeholder backend b.  The handle is tested first by the three
\* backends above, after validation by the docker placeholder, and by no
\* other.  configured: remote.Backend has an endpoint, temporal.Backend a
\* sandbox backend; without it they return the empty result with
\* ErrRemoteNotAvailable and ErrMissingSandboxBackend.  "not-available" is
\* the package's own Err...NotAvailable sentinel.  No placeholder has a side
\* effect.
PlaceholderExecute(b, req, cancelled, configured) ==
    /\ bpc = "idle"
    /\ bfx' = NoEffects
    /\ bret' = IF b \in HandleFirstBackends /\ CtxErr(cancelled) # "none"
               THEN BackendError(CtxErr(cancelled))
               ELSE IF Validate(req) # "none"
               THEN BackendError(Validate(req))
               ELSE IF b = "docker.placeholder" /\ CtxErr(cancelled) # "none"
               THEN BackendError(CtxErr(cancelled))
               ELSE IF b = "remote" /\ ~configured
               THEN BackendError("not-available")
               ELSE IF b = "temporal" /\ ~configured
               THEN BackendError("missing-sandbox-backend")
               ELSE [BackendError("not-available") EXCEPT !.kind = Kind(b)]
    /\ UNCHANGED <<bcfg, bpc, bcall>>

\* Execute of the wasm backend up to the health check: validation, the
\* client test, the timeout and the context check, the profile.  The backend
\* is built with the client and the health checker of the configuration.
WasmExecute(req, cancelled) ==
    /\ bpc = "idle"
    /\ bfx' = NoEffects
    /\ IF Validate(req) # "none"
       THEN /\ bret' = BackendError(Validate(req))
            /\ UNCHANGED <<bpc, bcall>>
       ELSE IF ~bcfg.client
       THEN /\ bret' = BackendError("client-not-configured")
            /\ UNCHANGED <<bpc, bcall>>
       ELSE IF CtxErr(cancelled) # "none"
       THEN /\ bret' = BackendError(CtxErr(cancelled))
            /\ UNCHANGED <<bpc, bcall>>
       ELSE /\ bpc' = "wasm_ping"
            /\ bcall' = [op |-> "execute", backend |-> "wasm", req |-> req,
                         cancelled |-> cancelled]
            /\ bret' = NoResult
    /\ UNCHANGED bcfg

\* The optional health check of the wasm backend: healthChecker.Ping(ctx)
\* and its return.  A failed ping returns
\* fmt.Errorf("%w: %v", ErrWASMRuntimeNotAvailable, err).
WasmPing ==
    /\ bpc = "wasm_ping"
    /\ bfx' = [bfx EXCEPT !.pinged = (bcfg.health # "none")]
    /\ IF bcfg.health = "down"
       THEN /\ bret' = [BackendError("not-available") EXCEPT
                          !.chain = Errorf("not-available", <<"ping-failed">>)]
            /\ bpc' = "idle"
            /\ bcall' = NoCall
       ELSE /\ bpc' = "wasm_run"
            /\ UNCHANGED <<bcall, bret>>
    /\ UNCHANGED bcfg

\* buildSpec (which cannot fail), client.Run and the return of the wasm
\* backend.  ok tells whether client.Run came back without error; its error
\* is returned as it is, with a result that names the backend.
WasmRun(ok) ==
    /\ bpc = "wasm_run"
    /\ bret' = [BackendError(IF ok THEN "none" ELSE "runner-error")
                  EXCEPT !.kind = Kind("wasm"), !.enforcedToolCalls = ok]
    /\ bfx' = [bfx EXCEPT !.runner = TRUE]
    /\ bpc' = "idle"
    /\ bcall' = NoCall
    /\ UNCHANGED bcfg

\* ---------------------------------------------------- the engine adapter
\* A translation that also collapses backend-denied.
MapErrorCollapsesDenied(err) ==
    IF err = <<>> THEN <<>>
    ELSE IF ErrorsIs(err, "timeout") THEN Errorf("limit-exceeded", err)
    ELSE IF ErrorsIs(err, "resource-limit") THEN Errorf("limit-exceeded", err)
    ELSE IF ErrorsIs(err, "sandbox-violation") \/ ErrorsIs(err, "backend-denied")
    THEN Errorf("execution-failed", err)
    ELSE err

\* mapError.
MapError(err) ==
    IF err = <<>> THEN <<>>
    ELSE IF ErrorsIs(err, "timeout") THEN Errorf("limit-exceeded", err)
    ELSE IF ErrorsIs(err, "resource-limit") THEN Errorf("limit-exceeded", err)
    ELSE IF ErrorsIs(err, "sandbox-violation")
    THEN Errorf("execution-failed", err)
    ELSE err

AdapterInit ==
    /\ apc = "idle"
    /\ alimit = 0
    /\ acalls = 0
    /\ agw = "none"
    /\ aerr = <<>>
    /\ acause = "none"
    /\ aret = NoResult

\* Engine.Execute up to runtime.Execute: the tools wrapped as the request's
\* gateway, params.MaxToolCalls copied to limits.max_tool_calls.
EngineExecute(maxToolCalls_) ==
    /\ apc = "idle"
    /\ apc' = "running"
    /\ alimit' = maxToolCalls_
    /\ acalls' = 0
    /\ agw' = "none"
    /\ aerr' = <<>>
    /\ acause' = "none"
    /\ aret' = NoResult

\* toolsGateway.RunTool, called by the running snippet, up to the call of
\* the wrapped Tools: a context that is done returns its error, otherwise
\* the call is handed to the Tools.
WrapperRunTool(cancelled) ==
    /\ apc = "running"
    /\ agw # "called"
    /\ acalls < MaxCalls
    /\ IF cancelled
       THEN agw' = "cancelled" /\ acalls' = acalls
       ELSE agw' = "called" /\ acalls' = acalls + 1
    /\ UNCHANGED <<apc, alimit, aerr, acause, aret>>

\* toolsGateway.RunChain of n steps, up to the call of the wrapped Tools,
\* which run the steps.
WrapperRunChain(n, cancelled) ==
    /\ apc = "running"
    /\ agw # "called"
    /\ acalls + n <= MaxCalls
    /\ IF cancelled
       THEN agw' = "cancelled" /\ acalls' = acalls
       ELSE agw' = "called" /\ acalls' = acalls + n
    /\ UNCHANGED <<apc, alimit, aerr, acause, aret>>

\* The wrapped Tools come back and the wrapper returns what they returned:
\* a result, or their error.  The execution may have ended meanwhile.
WrapperReturn(ok) ==
    /\ agw = "called"
    /\ agw' = IF ok THEN "ok" ELSE "error"
    /\ UNCHANGED <<apc, alimit, acalls, aerr, acause, aret>>

\* The execution ends inside the runtime: without error (kind "none") or
\* with the sentinel of a kind.
RuntimeDone(kind) ==
    /\ apc = "running"
    /\ apc' = "returning"
    /\ aerr' = IF kind = "none" THEN <<>> ELSE <<kind>>
    /\ acause' = kind
    /\ UNCHANGED <<alimit, acalls, agw, aret>>

\* The error is put into a RuntimeError on its way up.
WrapRuntimeError ==
    /\ apc = "returning"
    /\ aerr # <<>>
    /\ Len(aerr) <= MaxWrap
    /\ aerr' = RuntimeErrorOf(aerr)
    /\ UNCHANGED <<apc, alimit, acalls, agw, acause, aret>>

\* A backend wraps the error as the cause of one of its own kinds: the
\* host-subprocess backend's timeout, the container backend's
\* daemon-unavailable.
WrapCause(sentinel) ==
    /\ apc = "returning"
    /\ aerr # <<>>
    /\ Len(aerr) <= MaxWrap
    /\ aerr' = Errorf(sentinel, aerr)
    /\ UNCHANGED <<apc, alimit, acalls, agw, acause, aret>>

\* Engine.Execute after runtime.Execute: the error translated.
EngineReturn ==
    /\ apc = "returning"
    /\ apc' = "idle"
    /\ aret' = [err |-> MapError(aerr)]
    /\ UNCHANGED <<alimit, acalls, agw, aerr, acause>>

\* ------------------------------------------------------ the proxy gateway
\* New: an open gateway on an open connection, no request issued.
ProxyInit ==
    /\ closed = FALSE
    /\ connClosed = FALSE
    /\ requestID = 0
    /\ pending = {}
    /\ slot = [i \in 1..MaxRequests |-> <<>>]
    /\ wire = {}
    /\ ppc = [p \in Procs |-> "idle"]
    /\ pcall = [p \in Procs |-> NoCall]
    /\ pret = [p \in Procs |-> NoResult]
    /\ dpc = "idle"
    /\ dmsg = NoCall
    /\ dret = "none"
    /\ cpc = "idle"
    /\ accepted = [i \in 1..MaxRequests |-> 0]
    /\ closeDone = FALSE

\* What a proxy operation returns: an error, or the id of the response
\* message it decoded (0 when it returned without a response).
ProxyResult(err, resp) == [err |-> err, resp |-> resp]

\* The locals of request() once it has its result: only the id, for the
\* deferred delete, and the result are still used.
Exit(id, result) == [op |-> "exit", id |-> id, result |-> result]

\* A request counter that hands out the first id again and again.
RequestIDStuck(n) == 1

\* g.requestID.Add(1): the id of the next request.  Ids are the decimal
\* numerals of the counter's values, one numeral per value.
NextRequestID(n) == n + 1

\* The six operations up to the call of request(): g.closed.Load() and
\* RunChain's return on an empty chain.  The handle is not looked at.  No
\* lock is held: Close and DeliverResponse can run between this step and
\* the next two.  The request has no id yet (0).
ProxyEntry(p, op, emptyChain, cancelled) ==
    /\ ppc[p] = "idle"
    /\ IF closed
       THEN /\ pret' = [pret EXCEPT ![p] = ProxyResult("connection-closed", 0)]
            /\ UNCHANGED <<ppc, pcall>>
       ELSE IF op = MsgRunChain /\ emptyChain
       THEN /\ pret' = [pret EXCEPT ![p] = ProxyResult("none", 0)]
            /\ UNCHANGED <<ppc, pcall>>
       ELSE /\ requestID + Cardinality({q \in Procs : ppc[q] = "entered"})
                 < MaxRequests
            /\ ppc' = [ppc EXCEPT ![p] = "entered"]
            /\ pcall' = [pcall EXCEPT ![p] =
                           [op |-> "request", id |-> 0,
                            cancelled |-> cancelled, atClose |-> FALSE]]
            /\ pret' = [pret EXCEPT ![p] = NoResult]
    /\ UNCHANGED <<closed, connClosed, requestID, pending, slot, wire, dpc,
                   dmsg, dret, cpc, accepted, closeDone>>

\* request(): id := g.requestID.Add(1), one atomic operation.
ProxyIssue(p) ==
    /\ ppc[p] = "entered"
    /\ requestID' = NextRequestID(requestID)
    /\ pcall' = [pcall EXCEPT ![p].id = NextRequestID(requestID)]
    /\ ppc' = [ppc EXCEPT ![p] = "store"]
    /\ UNCHANGED <<closed, connClosed, pending, slot, wire, pret, dpc, dmsg,
                   dret, cpc, accepted, closeDone>>

\* request(): the response channel made and g.pending.Store(id, respCh).
ProxyStore(p) ==
    /\ ppc[p] = "store"
    /\ pending' = pending \cup {pcall[p].id}
    /\ slot' = [slot EXCEPT ![pcall[p].id] = <<>>]
    /\ ppc' = [ppc EXCEPT ![p] = "send"]
    /\ UNCHANGED <<closed, connClosed, requestID, wire, pcall, pret, dpc,
                   dmsg, dret, cpc, accepted, closeDone>>

\* g.conn.Send(ctx, msg).  A closed connection fails with connection-closed;
\* an open one sends the message or fails (sendOk), whatever the handle.
ProxySend(p, sendOk) ==
    /\ ppc[p] = "send"
    /\ IF connClosed
       THEN /\ ppc' = [ppc EXCEPT ![p] = "exit"]
            /\ pcall' = [pcall EXCEPT ![p] =
                           Exit(pcall[p].id,
                                ProxyResult("connection-closed", 0))]
            /\ wire' = wire
       ELSE IF ~sendOk
       THEN /\ ppc' = [ppc EXCEPT ![p] = "exit"]
            /\ pcall' = [pcall EXCEPT ![p] =
                           Exit(pcall[p].id, ProxyResult("send-error", 0))]
            /\ wire' = wire
       ELSE /\ ppc' = [ppc EXCEPT ![p] = "wait"]
            /\ wire' = wire \cup {pcall[p].id}
            /\ pcall' = pcall
    /\ UNCHANGED <<closed, connClosed, requestID, pending, slot, pret, dpc,
                   dmsg, dret, cpc, accepted, closeDone>>

\* A wait that only receives from the response channel.
ProxyWaitIgnoresCtx(p, byCtx) ==
    /\ ppc[p] = "wait"
    /\ slot[pcall[p].id] # <<>>
    /\ LET resp == Head(slot[pcall[p].id])
       IN  pcall' = [pcall EXCEPT ![p] =
                       Exit(pcall[p].id,
                            IF resp.type = MsgError
                            THEN ProxyResult("remote-error", 0)
                            ELSE ProxyResult("none", resp.id))]
    /\ slot' = [slot EXCEPT ![pcall[p].id] = <<>>]
    /\ ppc' = [ppc EXCEPT ![p] = "exit"]
    /\ UNCHANGED <<closed, connClosed, requestID, pending, wire, pret, dpc,
                   dmsg, dret, cpc, accepted, closeDone>>

\* The select on ctx.Done() and the response channel; byCtx tells which ready
\* case is taken.  An error message makes the call fail.
ProxyWait(p, byCtx) ==
    /\ ppc[p] = "wait"
    /\ IF byCtx
       THEN /\ pcall[p].cancelled
            /\ pcall' = [pcall EXCEPT ![p] =
                           Exit(pcall[p].id, ProxyResult("cancelled", 0))]
            /\ slot' = slot
       ELSE /\ slot[pcall[p].id] # <<>>
            /\ LET resp == Head(slot[pcall[p].id])
               IN  pcall' = [pcall EXCEPT ![p] =
                               Exit(pcall[p].id,
                                    IF resp.type = MsgError
                                    THEN ProxyResult("remote-error", 0)
                                    ELSE ProxyResult("none", resp.id))]
            /\ slot' = [slot EXCEPT ![pcall[p].id] = <<>>]
    /\ ppc' = [ppc EXCEPT ![p] = "exit"]
    /\ UNCHANGED <<closed, connClosed, requestID, pending, wire, pret, dpc,
                   dmsg, dret, cpc, accepted, closeDone>>

\* A return that leaves the request's channel in the pending map.
ProxyReturnKeepsPending(p) ==
    /\ ppc[p] = "exit"
    /\ pret' = [pret EXCEPT ![p] = pcall[p].result]
    /\ ppc' = [ppc EXCEPT ![p] = "idle"]
    /\ pcall' = [pcall EXCEPT ![p] = NoCall]
    /\ UNCHANGED <<closed, connClosed, requestID, pending, slot, wire, dpc,
                   dmsg, dret, cpc, accepted, closeDone>>

\* request() returns: the deferred g.pending.Delete(id), then the result.
\* The channel goes with the request unless DeliverResponse still holds it.
ProxyReturn(p) ==
    /\ ppc[p] = "exit"
    /\ pending' = pending \ {pcall[p].id}
    /\ slot' = IF dpc = "loaded" /\ dmsg.id = pcall[p].id
               THEN slot
               ELSE [slot EXCEPT ![pcall[p].id] = <<>>]
    /\ pret' = [pret EXCEPT ![p] = pcall[p].result]
    /\ ppc' = [ppc EXCEPT ![p] = "idle"]
    /\ pcall' = [pcall EXCEPT ![p] = NoCall]
    /\ UNCHANGED <<closed, connClosed, requestID, wire, dpc, dmsg, dret, cpc,
                   accepted, closeDone>>

\* The ambient handle of a request in flight is cancelled.
ProxyCancel(p) ==
    /\ ppc[p] \in {"send", "wait"}
    /\ ~pcall[p].cancelled
    /\ pcall' = [pcall EXCEPT ![p].cancelled = TRUE]
    /\ UNCHANGED <<closed, connClosed, requestID, pending, slot, wire, ppc,
                   pret, dpc, dmsg, dret, cpc, accepted, closeDone>>

\* DeliverResponse: g.pending.Load(msg.ID).
DeliverLoad(id, type) ==
    /\ dpc = "idle"
    /\ IF id \in pending
       THEN /\ dpc' = "loaded"
            /\ dmsg' = [op |-> "deliver", id |-> id, type |-> type]
            /\ dret' = "none"
       ELSE /\ dret' = "protocol"
            /\ UNCHANGED <<dpc, dmsg>>
    /\ UNCHANGED <<closed, connClosed, requestID, pending, slot, wire, ppc,
                   pcall, pret, cpc, accepted, closeDone>>

\* DeliverResponse: the non-blocking send on the channel it loaded.  The
\* channel of a request that has returned goes when DeliverResponse returns.
DeliverSend ==
    /\ dpc = "loaded"
    /\ IF slot[dmsg.id] = <<>>
       THEN /\ accepted' = [accepted EXCEPT ![dmsg.id] = @ + 1]
            /\ dret' = "ok"
       ELSE /\ dret' = "protocol"
            /\ accepted' = accepted
    /\ slot' = [slot EXCEPT ![dmsg.id] =
                  IF dmsg.id \notin pending THEN <<>>
                  ELSE IF slot[dmsg.id] = <<>>
                  THEN <<[type |-> dmsg.type, id |-> dmsg.id]>>
                  ELSE slot[dmsg.id]]
    /\ dpc' = "idle"
    /\ dmsg' = NoCall
    /\ UNCHANGED <<closed, connClosed, requestID, pending, wire, ppc, pcall,
                   pret, cpc, closeDone>>

\* A Close that closes the connection and leaves the closed flag alone.
ProxyCloseFlagless ==
    /\ cpc = "idle"
    /\ cpc' = "closing"
    /\ UNCHANGED <<closed, connClosed, requestID, pending, slot, wire, ppc,
                   pcall, pret, dpc, dmsg, dret, accepted, closeDone>>

\* Close up to g.closed.Store(true), under closeMu.  Close on a closed gateway
\* returns at once.  atClose marks the requests that are waiting for their
\* response when the gateway is closed.
ProxyClose ==
    /\ cpc = "idle"
    /\ IF closed
       THEN /\ closeDone' = TRUE
            /\ UNCHANGED <<closed, cpc, pcall>>
       ELSE /\ closed' = TRUE
            /\ cpc' = "closing"
            /\ pcall' = [p \in Procs |->
                           IF ppc[p] = "wait"
                           THEN [pcall[p] EXCEPT !.atClose = TRUE]
                           ELSE pcall[p]]
            /\ closeDone' = closeDone
    /\ UNCHANGED <<connClosed, requestID, pending, slot, wire, ppc, pret, dpc,
                   dmsg, dret, accepted>>

\* Close: g.conn.Close() and the return.
ProxyCloseConn ==
    /\ cpc = "closing"
    /\ connClosed' = TRUE
    /\ cpc' = "idle"
    /\ closeDone' = TRUE
    /\ UNCHANGED <<closed, requestID, pending, slot, wire, ppc, pcall, pret,
                   dpc, dmsg, dret, accepted>>

Init ==
    GatewayInit /\ RouterUnused /\ BackendUnused /\ ProxyInit
    /\ BuilderUnused /\ AdapterInit

\* ------------------------------------------------------------ RunTool
\* RunTool up to the end of its first critical section: the context check,
\* the limit check and the counter increment.
RunToolEntry(p, id, cancelled) ==
    /\ pc[p] = "idle"
    /\ UNCHANGED <<maxToolCalls, maxChainSteps, toolCalls, runnerCalls, toolOk>>
    /\ IF cancelled
       THEN /\ ret' = [op |-> "run_tool", status |-> "cancelled"]
            /\ UNCHANGED <<callCount, pc, cur, nextInv, initiated>>
       ELSE IF ToolLimitReached(callCount, maxToolCalls)
       THEN /\ ret' = [op |-> "run_tool", status |-> "tool-call-limit"]
            /\ UNCHANGED <<callCount, pc, cur, nextInv, initiated>>
       ELSE /\ nextInv < MaxCalls
            /\ callCount' = callCount + 1
            /\ nextInv' = nextInv + 1
            /\ initiated' = initiated + 1
            /\ pc' = [pc EXCEPT ![p] = "tool_run"]
            /\ cur' = [cur EXCEPT ![p] = [op |-> "run_tool", id |-> id,
                                          inv |-> nextInv + 1]]
            /\ ret' = ret

\* The rest of RunTool: the runner is called and returns, the record is built
\* and appended under the lock, the call returns.
RunToolRecord(p) ==
    /\ pc[p] = "tool_run"
    /\ LET err  == RunnerFails(cur[p].id)
           kind == RunnerKind(cur[p].id)
       IN  /\ runnerCalls' = runnerCalls + 1
           /\ toolCalls' = Append(toolCalls,
                                  ToolRecord(cur[p].id, err, kind, cur[p].inv))
           /\ ret' = [op |-> "run_tool",
                      status |-> IF err THEN "runner-error" ELSE "ok"]
           /\ toolOk' = IF err THEN toolOk ELSE toolOk + 1
    /\ pc' = [pc EXCEPT ![p] = "idle"]
    /\ cur' = [cur EXCEPT ![p] = NoCall]
    /\ UNCHANGED <<maxToolCalls, maxChainSteps, callCount, nextInv, initiated>>

\* ------------------------------------------------------------ RunChain
\* RunChain up to the end of its first critical section: the context check,
\* the empty-chain return, the chain-step check, and the reservation of
\* len(steps) slots.
RunChainEntry(p, steps, cancelled) ==
    /\ pc[p] = "idle"
    /\ UNCHANGED <<maxToolCalls, maxChainSteps, toolCalls, runnerCalls, toolOk,
                   initiated>>
    /\ IF cancelled
       THEN /\ ret' = [op |-> "run_chain", status |-> "cancelled"]
            /\ UNCHANGED <<callCount, pc, cur, nextInv>>
       ELSE IF Len(steps) = 0
       THEN /\ ret' = [op |-> "run_chain", status |-> "ok"]
            /\ UNCHANGED <<callCount, pc, cur, nextInv>>
       ELSE IF ChainStepLimitExceeded(Len(steps), maxChainSteps)
       THEN /\ ret' = [op |-> "run_chain", status |-> "chain-step-limit"]
            /\ UNCHANGED <<callCount, pc, cur, nextInv>>
       ELSE IF ChainLimitReached(callCount, Len(steps), maxToolCalls)
       THEN /\ ret' = [op |-> "run_chain", status |-> "tool-call-limit"]
            /\ UNCHANGED <<callCount, pc, cur, nextInv>>
       ELSE /\ nextInv < MaxCalls
            /\ callCount' = callCount + Len(steps)
            /\ nextInv' = nextInv + 1
            /\ pc' = [pc EXCEPT ![p] = "chain_run"]
            /\ cur' = [cur EXCEPT ![p] =
                         [op |-> "run_chain", steps |-> steps, inv |-> nextInv + 1,
                          reserved |-> Len(steps), net |-> Len(steps)]]
            /\ ret' = ret

\* The runner is called and returns n step results and err; executed is
\* computed and, when fewer steps ran than were reserved, the difference is
\* given back under the lock.  With executed = 0 the call returns here, without
\* a record.
RunChainRunner(p, n, err) ==
    /\ pc[p] = "chain_run"
    /\ LET reserved == cur[p].reserved
           results  == RunnerStepResults(cur[p].steps, n)
           executed == Executed(Len(results), err, reserved)
           status   == IF err THEN "runner-error" ELSE "ok"
           count    == IF executed < reserved
                       THEN Refund(callCount, reserved, executed)
                       ELSE callCount
           acct     == [reserved |-> reserved, nresults |-> Len(results),
                        err |-> err, executed |-> executed,
                        net |-> cur[p].net + (count - callCount)]
       IN  /\ runnerCalls' = runnerCalls + 1
           /\ initiated' = initiated + StepsRun(n, err, reserved)
           /\ callCount' = count
           /\ IF executed = 0
              THEN /\ pc' = [pc EXCEPT ![p] = "idle"]
                   /\ cur' = [cur EXCEPT ![p] = NoCall]
                   /\ ret' = [op |-> "run_chain", status |-> status]
              ELSE /\ pc' = [pc EXCEPT ![p] = "chain_record"]
                   /\ cur' = [cur EXCEPT ![p] =
                                [op |-> "run_chain", steps |-> cur[p].steps,
                                 inv |-> cur[p].inv, results |-> results,
                                 status |-> status, acct |-> acct]]
                   /\ ret' = ret
    /\ UNCHANGED <<maxToolCalls, maxChainSteps, toolCalls, nextInv, toolOk>>

\* The last critical section of RunChain: the records of the first `executed`
\* steps are appended, and the call returns.
RunChainRecord(p) ==
    /\ pc[p] = "chain_record"
    /\ toolCalls' = toolCalls \o ChainRecords(cur[p].steps, cur[p].results,
                                              cur[p].acct.executed, cur[p].inv)
    /\ pc' = [pc EXCEPT ![p] = "idle"]
    /\ cur' = [cur EXCEPT ![p] = NoCall]
    /\ ret' = [op |-> "run_chain", status |-> cur[p].status]
    /\ UNCHANGED <<maxToolCalls, maxChainSteps, callCount, nextInv, runnerCalls,
                   toolOk, initiated>>

\* ------------------------------------------------- GetToolCalls and Reset
\* GetToolCalls returns, under the lock, a copy of the record list.
GetToolCalls == toolCalls

\* Reset clears the record list and the counter.
Reset ==
    /\ callCount' = 0
    /\ toolCalls' = <<>>
    /\ toolOk' = 0
    /\ initiated' = 0
    /\ UNCHANGED <<maxToolCalls, maxChainSteps, pc, cur, ret, nextInv, runnerCalls>>

\* ------------------------------------------------ DefaultRuntime.Execute
\* Execute up to r.mu.RUnlock(): the context check, the validation, the
\* profile resolution, and the read of the backend and of the deny flag under
\* the read lock.
ExecuteLookup(e, req, cancelled) ==
    /\ rpc[e] = "idle"
    /\ IF CtxErr(cancelled) # "none"
       THEN /\ rres' = [rres EXCEPT ![e] = EmptyResult(CtxErr(cancelled))]
            /\ UNCHANGED <<rpc, rloc>>
       ELSE IF Validate(req) # "none"
       THEN /\ rres' = [rres EXCEPT ![e] = EmptyResult(Validate(req))]
            /\ UNCHANGED <<rpc, rloc>>
       ELSE LET profile == EffectiveProfile(req, defaultProfile)
            IN  /\ rpc' = [rpc EXCEPT ![e] = "looked_up"]
                /\ rloc' = [rloc EXCEPT ![e] =
                     [op |-> "execute", req |-> req, profile |-> profile,
                      backend |-> LookupBackend(backends, profile),
                      isDenied |-> profile \in denyUnsafeProfiles]]
                /\ rres' = [rres EXCEPT ![e] = NoResult]
    /\ UNCHANGED <<backends, denyUnsafeProfiles, defaultProfile>>

\* Execute from the !ok test to the call of backend.Execute.
ExecuteDispatch(e) ==
    /\ rpc[e] = "looked_up"
    /\ IF rloc[e].backend = NoBackend
       THEN /\ rres' = [rres EXCEPT ![e] = EmptyResult("runtime-unavailable")]
            /\ rpc' = [rpc EXCEPT ![e] = "idle"]
            /\ rloc' = [rloc EXCEPT ![e] = NoCall]
       ELSE IF UnsafeDenied(rloc[e].isDenied, Kind(rloc[e].backend))
       THEN /\ rres' = [rres EXCEPT ![e] = EmptyResult("backend-denied")]
            /\ rpc' = [rpc EXCEPT ![e] = "idle"]
            /\ rloc' = [rloc EXCEPT ![e] = NoCall]
       ELSE /\ rpc' = [rpc EXCEPT ![e] = "backend"]
            /\ rloc' = [rloc EXCEPT ![e] =
                 [op |-> "execute", req |-> rloc[e].req,
                  profile |-> rloc[e].profile, backend |-> rloc[e].backend,
                  isDenied |-> rloc[e].isDenied,
                  breq |-> BackendRequest(rloc[e].req, rloc[e].profile)]]
            /\ rres' = rres
    /\ UNCHANGED <<backends, denyUnsafeProfiles, defaultProfile>>

\* backend.Execute returns and Execute finishes: an error is passed on with
\* the backend's result; on success an empty ToolCalls is replaced by the
\* trace of a gateway that can report one.
ExecuteReturn(e, out) ==
    /\ rpc[e] = "backend"
    /\ out \in BackendOutcomes(rloc[e].backend)
    /\ LET result == BackendExecute(rloc[e].backend, out)
           traced == IF result.err = "none"
                     THEN Harvest(result, rloc[e].req.gateway, GetToolCalls)
                     ELSE result
       IN  rres' = [rres EXCEPT ![e] =
                      [err |-> traced.err, toolCalls |-> traced.toolCalls,
                       kind |-> traced.kind,
                       enforcedToolCalls |-> traced.enforcedToolCalls,
                       limits |-> rloc[e].req.limits]]
    /\ rpc' = [rpc EXCEPT ![e] = "idle"]
    /\ rloc' = [rloc EXCEPT ![e] = NoCall]
    /\ UNCHANGED <<backends, denyUnsafeProfiles, defaultProfile>>

\* RegisterBackend, under the write lock.
RegisterBackend(profile, b) ==
    /\ backends' = [backends EXCEPT ![profile] = b]
    /\ UNCHANGED <<denyUnsafeProfiles, defaultProfile, rpc, rloc, rres>>

\* An unregistration that also fails the executions the profile's backend
\* is running.
UnregisterBackendAborts(profile) ==
    /\ backends' = [backends EXCEPT ![profile] = NoBackend]
    /\ rres' = [e \in Execs |->
                  IF rpc[e] = "backend" /\ rloc[e].profile = profile
                  THEN EmptyResult("runtime-unavailable") ELSE rres[e]]
    /\ rpc' = [e \in Execs |->
                 IF rpc[e] = "backend" /\ rloc[e].profile = profile
                 THEN "idle" ELSE rpc[e]]
    /\ rloc' = [e \in Execs |->
                  IF rpc[e] = "backend" /\ rloc[e].profile = profile
                  THEN NoCall ELSE rloc[e]]
    /\ UNCHANGED <<denyUnsafeProfiles, defaultProfile>>

\* UnregisterBackend, under the write lock.
UnregisterBackend(profile) ==
    /\ backends' = [backends EXCEPT ![profile] = NoBackend]
    /\ UNCHANGED <<denyUnsafeProfiles, defaultProfile, rpc, rloc, rres>>

\* ------------------------------------------------------- specifications
GatewayCallBy(p) ==
    \/ \E id \in Tools, c \in BOOLEAN : RunToolEntry(p, id, c)
    \/ RunToolRecord(p)
    \/ \E s \in ChainInputs, c \in BOOLEAN : RunChainEntry(p, s, c)
    \/ /\ pc[p] = "chain_run"
       /\ \E e \in BOOLEAN, n \in 0..(cur[p].reserved + MaxExtra) :
            RunChainRunner(p, n, e)
    \/ RunChainRecord(p)

GatewayCall == \E p \in Procs : GatewayCallBy(p)

\* Concurrent RunTool / RunChain calls on one gateway.
Next == GatewayCall /\ UNCHANGED <<rtVars, bkVars, pxVars, cbVars, adVars, hsVars>>

Spec == Init /\ [][Next]_vars

\* The same, with Reset at any moment.
NextReset == (GatewayCall \/ Reset) /\ UNCHANGED <<rtVars, bkVars, pxVars, cbVars, adVars, hsVars>>

SpecReset == Init /\ [][NextReset]_vars

\* A gateway created without a chain-step limit, and with no tool-call limit
\* or a limit of one call, which the second call reaches.
HarvestInit == Init /\ maxToolCalls \in 0..1 /\ maxChainSteps = 0

SpecHarvest == HarvestInit /\ [][NextReset]_vars

\* The snippet of an Execute whose backend is running calls run_tool on the
\* direct gateway of its request.
SandboxCall ==
    /\ \E e \in Execs : rpc[e] = "backend" /\ rloc[e].req.gateway = "direct"
    /\ \E p \in {"p1"} :
         \/ \E id \in Tools : RunToolEntry(p, id, FALSE)
         \/ RunToolRecord(p)
    /\ UNCHANGED <<rtVars, bkVars, pxVars, cbVars, adVars, hsVars>>

\* The router: Execute calls, registrations and unregistrations at any
\* moment, and the tool calls of the running snippets.
RouterNext ==
    \/ /\ \E e \in Execs :
            \/ \E req \in Requests, c \in BOOLEAN : ExecuteLookup(e, req, c)
            \/ ExecuteDispatch(e)
            \/ \E out \in Outcomes : ExecuteReturn(e, out)
       /\ UNCHANGED <<gwVars, bkVars, pxVars, cbVars, adVars, hsVars>>
    \/ /\ \E profile \in Profiles :
            \/ \E b \in Backends : RegisterBackend(profile, b)
            \/ UnregisterBackend(profile)
       /\ UNCHANGED <<gwVars, bkVars, pxVars, cbVars, adVars, hsVars>>
    \/ SandboxCall

\* The router's dispatch alone: Execute calls, registrations and
\* unregistrations at any moment, with snippets that call no tool.
DispatchNext ==
    /\ \/ \E e \in Execs :
            \/ \E req \in Requests, c \in BOOLEAN : ExecuteLookup(e, req, c)
            \/ ExecuteDispatch(e)
            \/ \E out \in Outcomes : ExecuteReturn(e, out)
       \/ \E profile \in Profiles :
            \/ \E b \in Backends : RegisterBackend(profile, b)
            \/ UnregisterBackend(profile)
    /\ UNCHANGED <<gwVars, bkVars, pxVars, cbVars, adVars, hsVars>>

\* A router, and a direct gateway built with any tool-call limit.
RouterSpecInit ==
    GatewayInit /\ maxChainSteps = 0 /\ RouterInit /\ BackendUnused
    /\ ProxyInit /\ BuilderUnused /\ AdapterInit

SpecRouter == RouterSpecInit /\ [][RouterNext]_vars

SpecDispatch == RouterSpecInit /\ [][DispatchNext]_vars

\* A call of Execute on the host-subprocess backend or on the container
\* backend with one of the given requests, step by step.
BackendCall(requests) ==
    \/ \E req \in requests, optIn \in OptInFlags, c \in BOOLEAN :
         UnsafeExecute(req, optIn, c)
    \/ \E mkdirOk \in BOOLEAN, writeOk \in BOOLEAN :
         UnsafeWorkspace(mkdirOk, writeOk)
    \/ \E ok \in BOOLEAN, fired \in BOOLEAN : UnsafeRun(ok, fired)
    \/ \E req \in requests, c \in BOOLEAN : DockerExecute(req, c)
    \/ DockerPing
    \/ DockerResolve
    \/ \E ok \in BOOLEAN : DockerRun(ok)

\* A call of Execute on the wasm backend, step by step, or on a placeholder
\* backend, with one of the given requests, between two calls of the
\* backends above.
OtherBackendCall(requests) ==
    \/ \E req \in requests, c \in BOOLEAN : WasmExecute(req, c)
    \/ WasmPing
    \/ \E ok \in BOOLEAN : WasmRun(ok)
    \/ \E b \in PlaceholderBackends, req \in requests, c \in BOOLEAN,
          configured \in BOOLEAN :
         PlaceholderExecute(b, req, c, configured)

\* One caller that calls Execute either on the backends directly or on a
\* router, one call at a time.  The backends called directly and the router
\* share no state, so what one kind of call does is the same whatever the
\* other has done before.  The backends are given the requests the backend
\* contract tests build (one without a gateway, one without code, a valid
\* one, each with the default profile), one with invalid limits, and the
\* request that lacks a gateway, code and valid limits at once.
BackendNext ==
    \/ /\ \A e \in Execs : rpc[e] = "idle" /\ rres[e] = NoResult
       /\ LET requests == {req \in Requests :
                              \/ req.gateway = "nil"
                              \/ /\ req.profile = ""
                                 /\ req.gateway = "direct"
                                 /\ req.limits \in {LimitsOf(0), LimitsOf(-1)}}
          IN  BackendCall(requests) \/ OtherBackendCall(requests)
       /\ UNCHANGED <<gwVars, rtVars, pxVars, cbVars, adVars, hsVars>>
    \/ /\ bpc = "idle" /\ bret = NoResult
       /\ \E e \in Execs :
            \/ \E req \in Requests, c \in BOOLEAN : ExecuteLookup(e, req, c)
            \/ ExecuteDispatch(e)
            \/ \E out \in Outcomes : ExecuteReturn(e, out)
       /\ UNCHANGED <<gwVars, bkVars, pxVars, cbVars, adVars, hsVars>>

\* A router with the container backend registered for profile dev, its
\* default profile.
RouterRegistered ==
    /\ backends = [p \in Profiles |->
                     IF p = ProfileDev THEN "docker" ELSE NoBackend]
    /\ denyUnsafeProfiles = {}
    /\ defaultProfile = ProfileDev
    /\ rpc = [e \in Execs |-> "idle"]
    /\ rloc = [e \in Execs |-> NoCall]
    /\ rres = [e \in Execs |-> NoResult]
    /\ rsince = [e \in Execs |-> {}]

BackendSpecInit ==
    GatewayInit /\ maxToolCalls = 0 /\ maxChainSteps = 0 /\ RouterRegistered
    /\ BackendInit /\ ProxyInit /\ BuilderUnused /\ AdapterInit

SpecBackend == BackendSpecInit /\ [][BackendNext]_vars

\* The host-subprocess backend and the container backend called directly,
\* one call at a time, and nothing else.
BackendOnlyNext ==
    BackendCall(Requests)
    /\ UNCHANGED <<gwVars, rtVars, pxVars, cbVars, adVars, hsVars>>

BackendOnlyInit ==
    GatewayInit /\ maxToolCalls = 0 /\ maxChainSteps = 0 /\ RouterUnused
    /\ BackendInit /\ ProxyInit /\ BuilderUnused /\ AdapterInit

SpecBackendOnly == BackendOnlyInit /\ [][BackendOnlyNext]_vars

\* One spec builder: options in any order, then Build.
BuilderNext ==
    /\ \/ \E m \in
              {MountOf(MountTypeBind, "/src", "/dst"),
               MountOf(MountTypeBind, "", "/dst"),
               MountOf(MountTypeVolume, "vol", "/dst"),
               MountOf(MountTypeVolume, "", "/dst"),
               MountOf(MountTypeTmpfs, "", "/dst"),
               MountOf(MountTypeTmpfs, "", ""),
               MountOf(MountTypeTmpfs, "/src", "/dst"),
               MountOf("", "/src", "/dst"), MountOf("nfs", "/src", "/dst")} :
            Option(WithMount(builder, m))
       \/ \E source \in {"", "/src"} :
            Option(WithBindMount(builder, source, "/dst"))
       \/ \E target \in {"", "/dst"} : Option(WithTmpfs(builder, target))
       \/ \E r \in {ZeroResources, [ZeroResources EXCEPT !.diskBytes = -1],
                   [ZeroResources EXCEPT !.diskBytes = 1,
                                         !.memoryBytes = 1]} :
            Option(WithResources(builder, r))
       \/ \E n \in {-1, 0, 1} : Option(WithMemory(builder, n))
       \/ \E n \in {-1, 0, 1} : Option(WithCPU(builder, n))
       \/ \E n \in {-1, 0, 1} : Option(WithPidsLimit(builder, n))
       \/ \E sec \in {ZeroSecurity,
                       [ZeroSecurity EXCEPT !.user = NonRootUser,
                                            !.readOnlyRootfs = TRUE,
                                            !.seccompProfile = SeccompPath]},
             mode \in {"", "none", "bridge", "host"}, priv \in BOOLEAN :
            Option(WithSecurity(builder,
                                [sec EXCEPT !.networkMode = mode,
                                            !.privileged = priv]))
       \/ \E user \in {"", NonRootUser} : Option(WithUser(builder, user))
       \/ \E ro \in BOOLEAN : Option(WithReadOnlyRootfs(builder, ro))
       \/ \E mode \in {"none", "bridge", "host"} :
            Option(WithNetworkMode(builder, mode))
       \/ Option(WithNoNetwork(builder))
       \/ Option(WithSeccompProfile(builder, SeccompPath))
       \/ Build
    /\ UNCHANGED <<gwVars, rtVars, bkVars, pxVars, adVars, hsVars>>

BuilderSpecInit ==
    GatewayInit /\ maxToolCalls = 0 /\ maxChainSteps = 0 /\ RouterUnused
    /\ BackendUnused /\ ProxyInit /\ BuilderInit /\ AdapterInit

SpecBuilder == BuilderSpecInit /\ [][BuilderNext]_vars

\* The container backend building the spec of one execution after another:
\* valid limits by the three caps the backend passes on, and the profiles a
\* request can name (the three there are, none, and one the runtime does
\* not know).
DockerSpecNext ==
    /\ \E image \in {"", "alpine:latest"}, m, c, p \in 0..1,
          profile \in {"", ProfileDev, ProfileStandard, ProfileHardened,
                       "custom"},
          seccompPath \in {"", SeccompPath} :
         DockerBuildSpec(image,
                         [LimitsOf(0) EXCEPT !.memoryBytes = m,
                                             !.cpuQuotaMillis = c,
                                             !.pidsMax = p],
                         profile, seccompPath)
    /\ UNCHANGED <<gwVars, rtVars, bkVars, pxVars, adVars, hsVars>>

DockerSpecInit ==
    GatewayInit /\ maxToolCalls = 0 /\ maxChainSteps = 0 /\ RouterUnused
    /\ BackendUnused /\ ProxyInit /\ BuilderUnused /\ AdapterInit

SpecDockerSpec == DockerSpecInit /\ [][DockerSpecNext]_vars

\* One engine adapter: executions one after another, the snippet calling
\* tools through the wrapped gateway, the runtime's error (one of the
\* runtime's sentinels, cancelled, daemon-unavailable, or none) wrapped on
\* its way.
AdapterNext ==
    /\ \/ \E m \in 0..MaxLimit : EngineExecute(m)
       \/ \E c \in BOOLEAN : WrapperRunTool(c)
       \/ \E n \in 1..MaxSteps, c \in BOOLEAN : WrapperRunChain(n, c)
       \/ \E ok \in BOOLEAN : WrapperReturn(ok)
       \/ \E kind \in {"runtime-unavailable", "backend-denied",
                        "sandbox-violation", "timeout", "resource-limit",
                        "missing-gateway", "missing-code", "invalid-limits",
                        "cancelled", "daemon-unavailable", "none"} :
            RuntimeDone(kind)
       \/ WrapRuntimeError
       \/ \E sentinel \in {"timeout", "daemon-unavailable"} :
            WrapCause(sentinel)
       \/ EngineReturn
    /\ UNCHANGED <<gwVars, rtVars, bkVars, pxVars, cbVars, hsVars>>

AdapterSpecInit ==
    GatewayInit /\ maxToolCalls = 0 /\ maxChainSteps = 0 /\ RouterUnused
    /\ BackendUnused /\ ProxyInit /\ BuilderUnused /\ AdapterInit

SpecAdapter == AdapterSpecInit /\ [][AdapterNext]_vars

\* Concurrent operations on one proxy gateway, the connection handler
\* delivering responses, and Close, at any moment.
ProxyNext ==
    /\ \/ \E p \in Procs :
            \/ \E op \in GatewayOps, c \in BOOLEAN :
                 \E emptyChain \in IF op = MsgRunChain THEN BOOLEAN
                                   ELSE {FALSE} :
                    ProxyEntry(p, op, emptyChain, c)
            \/ ProxyIssue(p)
            \/ ProxyStore(p)
            \/ \E sendOk \in BOOLEAN : ProxySend(p, sendOk)
            \/ \E byCtx \in BOOLEAN : ProxyWait(p, byCtx)
            \/ ProxyReturn(p)
            \/ ProxyCancel(p)
       \/ \E id \in 1..(MaxRequests + 1), type \in {MsgResponse, MsgError} :
            DeliverLoad(id, type)
       \/ DeliverSend
       \/ ProxyClose
       \/ ProxyCloseConn
    /\ UNCHANGED <<gwVars, rtVars, bkVars, cbVars, adVars, hsVars>>

ProxySpecInit ==
    GatewayInit /\ maxToolCalls = 0 /\ maxChainSteps = 0 /\ RouterUnused
    /\ BackendUnused /\ ProxyInit /\ BuilderUnused /\ AdapterInit

SpecProxy == ProxySpecInit /\ [][ProxyNext]_vars

\* The gateway's own steps are taken when they can be: the new id, the
\* channel stored, a send, a ready
\* select, a return, the send of DeliverResponse and the end of Close.  The
\* gateway's users are free to stop: no new call, delivery, cancellation or
\* Close has to happen.
ProxyFairness ==
    /\ \A p \in Procs :
         /\ WF_pxVars(ProxyIssue(p))
         /\ WF_pxVars(ProxyStore(p))
         /\ WF_pxVars(\E sendOk \in BOOLEAN : ProxySend(p, sendOk))
         /\ WF_pxVars(\E byCtx \in BOOLEAN : ProxyWait(p, byCtx))
         /\ WF_pxVars(ProxyReturn(p))
    /\ WF_pxVars(DeliverSend)
    /\ WF_pxVars(ProxyCloseConn)

SpecProxyLive == ProxySpecInit /\ [][ProxyNext]_vars /\ ProxyFairness

\* One caller issuing one request after another on a proxy gateway, the
\* connection handler delivering responses, cancellation and Close at any
\* moment, the gateway's own steps taken when they can be.
ProxyWaitNext ==
    /\ \/ \E op \in GatewayOps, c \in BOOLEAN :
            \E emptyChain \in IF op = MsgRunChain THEN BOOLEAN ELSE {FALSE} :
               ProxyEntry("p1", op, emptyChain, c)
       \/ ProxyIssue("p1")
       \/ ProxyStore("p1")
       \/ \E sendOk \in BOOLEAN : ProxySend("p1", sendOk)
       \/ \E byCtx \in BOOLEAN : ProxyWait("p1", byCtx)
       \/ ProxyReturn("p1")
       \/ ProxyCancel("p1")
       \/ \E id \in 1..(MaxRequests + 1), type \in {MsgResponse, MsgError} :
            DeliverLoad(id, type)
       \/ DeliverSend
       \/ ProxyClose
       \/ ProxyCloseConn
    /\ UNCHANGED <<gwVars, rtVars, bkVars, cbVars, adVars, hsVars>>

SpecProxyWait == ProxySpecInit /\ [][ProxyWaitNext]_vars /\ ProxyFairness

\* Execute calls one after another against a router whose default profile
\* has a backend, all handed the same direct gateway; the records the
\* gateway holds when Execute is called are remembered in rsince.
ReuseNext ==
    \/ /\ \E e \in Execs :
            \/ /\ \E req \in Requests, c \in BOOLEAN : ExecuteLookup(e, req, c)
               /\ rsince' = [rsince EXCEPT ![e] =
                               {GetToolCalls[i].inv : i \in 1..Len(GetToolCalls)}]
            \/ /\ \/ ExecuteDispatch(e)
                  \/ \E out \in Outcomes : ExecuteReturn(e, out)
               /\ UNCHANGED rsince
       /\ UNCHANGED <<gwVars, bkVars, pxVars, cbVars, adVars>>
    \/ SandboxCall

ReuseSpecInit ==
    GatewayInit /\ maxToolCalls = 0 /\ maxChainSteps = 0 /\ RouterRegistered
    /\ BackendUnused /\ ProxyInit /\ BuilderUnused /\ AdapterInit

SpecReuse == ReuseSpecInit /\ [][ReuseNext]_vars

\* ================================================================ claims
Quiescent == \A p \in Procs : pc[p] = "idle"

InFlight(p) == pc[p] # "idle"

\* ---- C1
\* C1: an Execute whose effective profile (the request's, or the default when
\* the request names none) is in the denied-unsafe set and whose resolved
\* backend has kind unsafe_host fails with backend-denied, and that backend's
\* Execute is never invoked, whatever RegisterBackend / UnregisterBackend
\* calls precede it or run concurrently with it.
C1_DeniedUnsafeNeverInvoked ==
    /\ [](\A e \in Execs :
            rpc[e] = "backend" =>
                ~(/\ EffectiveProfile(rloc[e].req, defaultProfile)
                        \in denyUnsafeProfiles
                  /\ Kind(rloc[e].backend) = BackendUnsafeHost))
    /\ [][\A e \in Execs :
            (/\ ExecuteDispatch(e)
             /\ rloc[e].backend # NoBackend
             /\ EffectiveProfile(rloc[e].req, defaultProfile)
                    \in denyUnsafeProfiles
             /\ Kind(rloc[e].backend) = BackendUnsafeHost)
            => /\ rres'[e].err = "backend-denied"
               /\ rpc'[e] = "idle"]_vars

\* An Execute without a profile of its own was denied under a denied default
\* profile, and the unsafe backend it had resolved is registered no longer.
C1_Witness ==
    \E e \in Execs :
        /\ rres[e].err = "backend-denied"
        /\ rpc[e] = "idle"
        /\ defaultProfile \in denyUnsafeProfiles
        /\ \A p \in Profiles : backends[p] # "unsafe"

\* ---- C2
\* C2: every successful result that reports the tool-call limit as enforced,
\* for a request with limits.max_tool_calls = m > 0, has at most m records in
\* tool_calls.
C2_EnforcedTraceWithinLimit ==
    \A e \in Execs :
        (/\ rres[e].err = "none"
         /\ rres[e].enforcedToolCalls
         /\ rres[e].limits.maxToolCalls > 0)
        => Len(rres[e].toolCalls) <= rres[e].limits.maxToolCalls

\* C3: on a gateway with max_tool_calls = m > 0 the limit check and the
\* increment (RunTool) or reservation (RunChain) are one step, so under every
\* interleaving of concurrent RunTool and RunChain calls the tool-call counter
\* never exceeds m.
C3_CounterNeverExceedsLimit ==
    maxToolCalls > 0 => callCount <= maxToolCalls

\* Two callers are in flight at once, the counter is full, and a further call
\* was turned away.
C3_Witness ==
    /\ maxToolCalls > 0
    /\ callCount = maxToolCalls
    /\ \A p \in Procs : InFlight(p)
    /\ ret.status = "tool-call-limit"

\* ---- C4
\* C4: on a gateway with max_tool_calls = n > 0, once n RunTool calls have
\* succeeded, a further RunTool call (live context) fails with tool-call-limit
\* and does not reach the runner: it returns in its first step, and the
\* counter, the record list and the number of runner calls stay as they were.
C4_CallAfterLimitFails ==
    [][\A p \in Procs, id \in Tools :
          (RunToolEntry(p, id, FALSE) /\ maxToolCalls > 0 /\ toolOk = maxToolCalls)
          => /\ ret' = [op |-> "run_tool", status |-> "tool-call-limit"]
             /\ UNCHANGED <<callCount, toolCalls, runnerCalls, pc, cur>>]_vars

\* n RunTool calls succeeded and the next one was turned away.
C4_Witness ==
    /\ maxToolCalls > 0
    /\ toolOk = maxToolCalls
    /\ ret = [op |-> "run_tool", status |-> "tool-call-limit"]
    /\ runnerCalls = maxToolCalls

\* ---- C5
\* C5: on a gateway with max_chain_steps = k > 0, RunChain (live context) with
\* more than k steps fails with chain-step-limit, makes no runner call, and
\* leaves the counter and the record list unchanged.
C5_LongChainRejected ==
    [][\A p \in Procs, steps \in ChainInputs :
          (RunChainEntry(p, steps, FALSE) /\ maxChainSteps > 0
             /\ Len(steps) > maxChainSteps)
          => /\ ret' = [op |-> "run_chain", status |-> "chain-step-limit"]
             /\ UNCHANGED <<callCount, toolCalls, runnerCalls, pc, cur>>]_vars

\* A chain was turned away for its length on a gateway that has calls on
\* record and room left in its tool-call budget.
C5_Witness ==
    /\ ret = [op |-> "run_chain", status |-> "chain-step-limit"]
    /\ maxChainSteps > 0
    /\ Len(toolCalls) > 0
    /\ callCount > 0
    /\ (maxToolCalls = 0 \/ callCount < maxToolCalls)

\* ---- C6
\* C6: on a gateway with max_tool_calls = m > 0, a RunChain call that gets to
\* the reservation (live context, non-empty chain within max_chain_steps)
\* reserves len(steps) slots in one step when they fit; when counter +
\* len(steps) would exceed m it fails with tool-call-limit, the runner is not
\* called, and the counter and the record list are unchanged.
C6_ChainReservation ==
    [][\A p \in Procs, steps \in ChainInputs :
          (RunChainEntry(p, steps, FALSE) /\ maxToolCalls > 0 /\ Len(steps) > 0
             /\ ~(maxChainSteps > 0 /\ Len(steps) > maxChainSteps))
          => IF callCount + Len(steps) > maxToolCalls
             THEN /\ ret' = [op |-> "run_chain", status |-> "tool-call-limit"]
                  /\ UNCHANGED <<callCount, toolCalls, runnerCalls, pc, cur>>
             ELSE /\ callCount' = callCount + Len(steps)
                  /\ pc'[p] = "chain_run"
                  /\ UNCHANGED <<toolCalls, runnerCalls>>]_vars

\* A chain was turned away for want of room while slots were still free (so a
\* single call would have been admitted) and another call was in flight.
C6_Witness ==
    /\ ret = [op |-> "run_chain", status |-> "tool-call-limit"]
    /\ maxToolCalls > 0
    /\ callCount > 0
    /\ callCount < maxToolCalls
    /\ \E p \in Procs : InFlight(p)

\* ---- C7
\* C7: a RunChain call that reached the runner changes the tool-call counter
\* by +len(steps) at its reservation and by -(len(steps) - executed) at its
\* refund, a net effect of exactly +executed, where executed is
\* min(|step_results|, |steps|), or |steps| when the runner returned no step
\* results and no error; the counter never goes below zero.
C7_ChainNetEffect ==
    [][\A p \in Procs :
          /\ \A steps \in ChainInputs :
               (RunChainEntry(p, steps, FALSE) /\ pc'[p] = "chain_run")
               => (callCount' - callCount = Len(steps)
                   /\ cur'[p].net = callCount' - callCount)
          /\ \A n \in 0..(MaxSteps + MaxExtra), e \in BOOLEAN :
               RunChainRunner(p, n, e)
               => LET reserved == Len(cur[p].steps)
                      executed == IF n = 0 /\ ~e THEN reserved ELSE Min(n, reserved)
                  IN  /\ cur[p].net + (callCount' - callCount) = executed
                      /\ callCount' >= 0]_vars

\* A chain ran fewer steps than it reserved and the difference was refunded
\* while another call held a slot.
C7_Witness ==
    \E p \in Procs :
        /\ pc[p] = "chain_record"
        /\ cur[p].acct.executed < cur[p].acct.reserved
        /\ cur[p].acct.net = cur[p].acct.executed
        /\ callCount > cur[p].acct.executed

\* ---- C8
\* C8: a RunChain call appends records for exactly the first `executed` input
\* steps, in input order and next to each other: no record of a concurrent
\* RunTool or RunChain ever lies between two records of one chain.
C8_RecordsOfOneCall(i, j) ==
    toolCalls[i].inv = toolCalls[j].inv
    => /\ \A k \in i..j : toolCalls[k].inv = toolCalls[i].inv
       /\ toolCalls[j].idx = toolCalls[i].idx + (j - i)

C8_ChainRecordsContiguous ==
    /\ [](\A i \in 1..Len(toolCalls), j \in 1..Len(toolCalls) :
            i < j => C8_RecordsOfOneCall(i, j))
    /\ [][\A p \in Procs :
            RunChainRecord(p)
            => LET steps    == cur[p].steps
                   n        == cur[p].acct.nresults
                   executed == IF n = 0 /\ ~cur[p].acct.err
                               THEN Len(steps) ELSE Min(n, Len(steps))
               IN  /\ Len(toolCalls') = Len(toolCalls) + executed
                   /\ SubSeq(toolCalls', 1, Len(toolCalls)) = toolCalls
                   /\ \A i \in 1..executed :
                        /\ toolCalls'[Len(toolCalls) + i].tool = steps[i]
                        /\ toolCalls'[Len(toolCalls) + i].idx = i
                        /\ toolCalls'[Len(toolCalls) + i].inv = cur[p].inv]_vars

\* The two records of a two-step chain over different tools lie side by side,
\* followed by the record of a call that was admitted before the chain and so
\* was in flight while the chain ran.
C8_Witness ==
    \E i \in 1..Len(toolCalls), j \in 1..Len(toolCalls) :
        /\ i + 1 < j
        /\ toolCalls[i].idx = 1
        /\ toolCalls[i + 1].idx = 2
        /\ toolCalls[i].tool # toolCalls[i + 1].tool
        /\ toolCalls[j].inv < toolCalls[i].inv

\* ---- C9
\* The invocations of caller p's call in flight that are initiated and not
\* yet recorded: the one of a RunTool between admission and record, the
\* executed steps of a RunChain between the runner's return and the record.
C9_UnrecordedBy(p) ==
    IF pc[p] = "tool_run" THEN 1
    ELSE IF pc[p] = "chain_record" THEN cur[p].acct.executed
    ELSE 0

C9_Unrecorded == C9_UnrecordedBy("p1") + C9_UnrecordedBy("p2")

C10_RecordsInInvocationOrder ==
    \A i \in 1..Len(toolCalls), j \in 1..Len(toolCalls) :
        i < j => toolCalls[i].inv <= toolCalls[j].inv

\* ---- C11
\* C11: when the backend returns success with an empty tool_calls list and
\* the request's gateway can report a call trace, the router's result carries
\* tool_calls equal to the gateway's trace snapshot, in the gateway's order.
C11_HarvestIsGatewayTrace ==
    [][\A e \in Execs :
          (/\ ExecuteReturn(e, "none")
           /\ Len(BackendExecute(rloc[e].backend, "none").toolCalls) = 0
           /\ rloc[e].req.gateway = "direct")
          => /\ rres'[e].err = "none"
             /\ rres'[e].toolCalls = toolCalls]_vars

\* A successful Execute returned the two records its snippet's calls to two
\* different tools left in the gateway, in the gateway's order.
C11_Witness ==
    \E e \in Execs :
        /\ rpc[e] = "idle"
        /\ rres[e].err = "none"
        /\ Len(rres[e].toolCalls) = 2
        /\ rres[e].toolCalls[1].tool # rres[e].toolCalls[2].tool
        /\ rres[e].toolCalls = toolCalls

\* ---- C12
\* C12: for a request with an empty profile on a router with default profile
\* D and a backend registered for D, the backend's Execute is called with the
\* profile resolved to D: the request the backend receives carries profile D.
C12_BackendReceivesResolvedProfile ==
    \A e \in Execs :
        (rpc[e] = "backend" /\ rloc[e].req.profile = "")
        => rloc[e].breq.profile = defaultProfile

\* ---- C13
\* C13: Execute for a valid request whose effective profile has no backend in
\* the router's map fails with runtime-unavailable and invokes no backend.
C13_MissingBackendUnavailable ==
    /\ [][\A e \in Execs, req \in ValidRequests :
            (/\ ExecuteLookup(e, req, FALSE)
             /\ \A p \in Profiles :
                    p = EffectiveProfile(req, defaultProfile)
                    => backends[p] = NoBackend)
            => /\ rpc'[e] = "looked_up"
               /\ rloc'[e].backend = NoBackend]_vars
    /\ [][\A e \in Execs :
            (ExecuteDispatch(e) /\ rloc[e].backend = NoBackend)
            => /\ rres'[e].err = "runtime-unavailable"
               /\ rpc'[e] = "idle"]_vars

\* An Execute found no backend for its profile while the other profile had
\* one, and failed with runtime-unavailable.
C13_Witness ==
    \E e \in Execs :
        /\ rpc[e] = "idle"
        /\ rres[e].err = "runtime-unavailable"
        /\ \E p \in Profiles : backends[p] # NoBackend
        /\ \E p \in Profiles : backends[p] = NoBackend

\* ---- C15
\* C15: router Execute called with an already-cancelled handle fails with
\* cancelled and has no side effect: no backend is looked up or invoked and
\* the gateway is not touched.
C15_CancelledExecute ==
    [][\A e \in Execs, req \in Requests :
          ExecuteLookup(e, req, TRUE)
          => /\ rres'[e].err = "cancelled"
             /\ rpc'[e] = "idle"
             /\ UNCHANGED <<rloc, backends, gwVars>>]_vars

\* An Execute failed with cancelled on a router that has a backend for every
\* profile.
C15_Witness ==
    \E e \in Execs :
        /\ rpc[e] = "idle"
        /\ rres[e].err = "cancelled"
        /\ \A p \in Profiles : backends[p] # NoBackend

\* ---- C14
\* C14 as stated: for every request with a null gateway, Execute on the
\* router and on every backend fails with missing-gateway.
C14_NullGatewayRequests == {req \in Requests : req.gateway = "nil"}

C16_CancelledBackendCall ==
    [][/\ \A req \in ValidRequests :
            UnsafeExecute(req, "bool:true", TRUE)
            => /\ bret'.err = "cancelled"
               /\ bpc' = "idle"
               /\ bfx' = NoEffects
       /\ \A req \in ValidRequests :
            (DockerExecute(req, TRUE) /\ bcfg.client)
            => /\ bret'.err = "cancelled"
               /\ bpc' = "idle"
               /\ bfx' = NoEffects]_vars

\* ---- C17
\* C17: an operation of a gateway that is called with an already-cancelled
\* handle fails with cancelled, and issues no request id, registers no
\* response channel and sends no message.  (Stated for the proxy gateway.)
C17_CancelledGatewayCall ==
    [][\A p \in Procs, op \in GatewayOps, emptyChain \in BOOLEAN :
         ProxyEntry(p, op, emptyChain, TRUE)
         => /\ pret'[p].err = "cancelled"
            /\ UNCHANGED <<requestID, pending, wire, ppc>>]_vars

\* ---- C18
\* C18: once a Close call has returned on a proxy gateway, each of the six
\* operations fails at once with connection-closed, whatever its arguments
\* and its handle, and issues no id, registers no channel and sends nothing.
C18_ClosedGatewayRejects ==
    [][closeDone /\ <<pret, ppc>>' # <<pret, ppc>>
         => \A p \in Procs :
              \/ /\ pret'[p] = ProxyResult("connection-closed", 0)
                 /\ UNCHANGED <<requestID, pending, slot, wire, ppc, pcall>>
              \/ ~ \E op \in GatewayOps, emptyChain \in BOOLEAN,
                       c \in BOOLEAN : ProxyEntry(p, op, emptyChain, c)]_vars

\* Close has returned and both callers' operations were refused while no
\* request was ever issued and nothing was ever sent.
C18_Witness ==
    /\ closeDone
    /\ cpc = "idle"
    /\ connClosed
    /\ requestID = 0
    /\ wire = {}
    /\ \A p \in Procs : pret[p] = ProxyResult("connection-closed", 0)

\* ---- C19
\* C19: a request that has been sent and is waiting for its response when
\* the gateway is closed eventually returns, with connection-closed.
C19_ClosePropagates ==
    \A p \in Procs :
        (ppc[p] = "wait" /\ pcall[p].atClose)
        ~> (ppc[p] = "idle" /\ pret[p].err = "connection-closed")

\* ---- C20
\* C20: no request id has more than one delivery accepted.
C20_SingleShot == \A id \in 1..MaxRequests : accepted[id] <= 1

\* ---- C21
\* The ids of the requests that have stored their response channel and have
\* not yet returned.
C21_InFlight ==
    {pcall[p].id : p \in {q \in Procs : ppc[q] \in {"send", "wait", "exit"}}}

\* C21 as stated: the pending map holds exactly the ids of the requests in
\* flight, those that were issued an id and have not yet returned.
C21_PendingIsIssued ==
    pending =
      {pcall[p].id :
         p \in {q \in Procs : ppc[q] \in {"store", "send", "wait", "exit"}}}

\* C21, amended: the pending map holds exactly the ids of the requests that
\* have stored their response channel and not yet returned, and a
\* DeliverResponse called for any other id (never issued, issued but not yet
\* stored, or of a request that has returned) returns a protocol error and
\* changes nothing else.
C21_PendingIsInFlight ==
    /\ [](pending = C21_InFlight)
    /\ [][(dret' # dret \/ dpc' # dpc)
           => \A id \in 1..(MaxRequests + 1), type \in {MsgResponse, MsgError} :
                (DeliverLoad(id, type) /\ id \notin C21_InFlight)
                => /\ dret' = "protocol"
                   /\ UNCHANGED <<pending, slot, ppc, pcall, pret, accepted,
                                  dpc, wire>>]_vars

\* One request returned with its response, another is still waiting, and the
\* latest delivery was refused.
C21_Witness ==
    /\ dret = "protocol"
    /\ dpc = "idle"
    /\ pending = {2}
    /\ accepted = [i \in 1..MaxRequests |-> IF i = 1 THEN 1 ELSE 0]
    /\ \E p \in Procs : ppc[p] = "idle" /\ pret[p] = ProxyResult("none", 1)
    /\ \E p \in Procs : ppc[p] = "wait" /\ pcall[p].id = 2 /\ slot[2] = <<>>

\* ---- C22
\* C22: the requests in flight have pairwise distinct ids, and a request that
\* completes with a response message completes with one that carries its
\* own id.
C22_DemultiplexedById ==
    /\ \A p, q \in Procs :
         (p # q /\ ppc[p] \notin {"idle", "entered"}
                 /\ ppc[q] \notin {"idle", "entered"})
         => pcall[p].id # pcall[q].id
    /\ \A p \in Procs :
         (ppc[p] = "exit" /\ pcall[p].result.err = "none")
         => pcall[p].result.resp = pcall[p].id
    /\ \A id \in 1..MaxRequests :
         slot[id] # <<>> => Head(slot[id]).id = id

\* The later of two concurrent requests has its response while the earlier
\* one is still waiting for its own.
C22_Witness ==
    \E p, q \in Procs :
        /\ ppc[p] = "exit"
        /\ pcall[p].id = 2
        /\ pcall[p].result = ProxyResult("none", 2)
        /\ ppc[q] = "wait"
        /\ pcall[q].id = 1
        /\ slot[1] = <<>>

\* ---- C23
\* C23: Build of a spec that is privileged or uses host networking, whatever
\* other options the builder was given and in whatever order, fails with
\* security-violation and returns no usable spec.
C23_UnsafeSpecIsSecurityViolation ==
    (/\ built # NoResult
     /\ builder.security.privileged \/ builder.security.networkMode = "host")
    => /\ ErrorKind(built.err) = "security-violation"
       /\ built.spec = ZeroSpec

\* ---- C24
\* The users that are root.
C24_RootUsers == {"", "root", "0", "root:root", "0:0"}

\* C24: for every profile of a request (empty and unknown ones included),
\* every valid limits, every configured seccomp path and image reference,
\* the spec the container backend builds for its runner is not privileged,
\* does not use host networking and runs as a user that is not root.
C24_HandedSpecIsConfined ==
    (handed # NoResult /\ handed.err = "none")
    => /\ ~handed.spec.security.privileged
       /\ handed.spec.security.networkMode # "host"
       /\ handed.spec.security.user \notin C24_RootUsers

\* A spec was built for a request that names a profile the runtime does not
\* know; it has bridge networking and the non-root user.
C24_Witness ==
    /\ handed # NoResult
    /\ handed.err = "none"
    /\ handed.reqProfile = "custom"
    /\ handed.limits.memoryBytes > 0
    /\ handed.spec.security.networkMode = "bridge"
    /\ handed.spec.security.user = NonRootUser

\* ---- C25
\* The security part of the spec built for profile p with the image, limits
\* and seccomp path of the latest execution.
C25_Posture(p) ==
    BuildSpec(handed.image, handed.limits, p, handed.seccompPath).spec.security

\* Posture a restricts at least as much as posture b.
C25_AtLeast(a, b) ==
    /\ b.networkMode = "none" => a.networkMode = "none"
    /\ b.readOnlyRootfs => a.readOnlyRootfs
    /\ b.user \notin C24_RootUsers => a.user \notin C24_RootUsers
    /\ b.seccompProfile # "" => a.seccompProfile # ""
    /\ a.privileged => b.privileged

\* C25: the spec of a dev execution has the network enabled and a writable
\* rootfs; that of a standard execution has no network, a read-only rootfs
\* and a non-root user; that of a hardened execution has what standard has
\* and the seccomp profile path the backend is configured with.  Hardened
\* restricts at least as much as standard, standard at least as much as dev.
C25_PostureFollowsProfile ==
    (handed # NoResult /\ handed.err = "none")
    => LET sec == handed.spec.security
       IN  /\ handed.profile = ProfileDev
              => sec.networkMode = "bridge" /\ ~sec.readOnlyRootfs
           /\ handed.profile = ProfileStandard
              => /\ sec.networkMode = "none"
                 /\ sec.readOnlyRootfs
                 /\ sec.user \notin C24_RootUsers
                 /\ sec.seccompProfile = ""
           /\ handed.profile = ProfileHardened
              => /\ sec.networkMode = "none"
                 /\ sec.readOnlyRootfs
                 /\ sec.user \notin C24_RootUsers
                 /\ sec.seccompProfile = handed.seccompPath
           /\ C25_AtLeast(C25_Posture(ProfileHardened),
                          C25_Posture(ProfileStandard))
           /\ C25_AtLeast(C25_Posture(ProfileStandard),
                          C25_Posture(ProfileDev))

\* A hardened execution on a backend configured with a seccomp path got a
\* spec that carries the path.
C25_Witness ==
    /\ handed # NoResult
    /\ handed.err = "none"
    /\ handed.profile = ProfileHardened
    /\ handed.seccompPath = SeccompPath
    /\ handed.spec.security.seccompProfile = SeccompPath
    /\ handed.spec.security.networkMode = "none"

\* ---- C26
\* A spec breaks a construction invariant that is not about security: empty
\* image, a mount without target, a bind or volume mount without source, a
\* tmpfs mount with a source, a negative resource field.
C26_BreaksInvariant(spec) ==
    \/ spec.image = ""
    \/ \E i \in 1..Len(spec.mounts) :
         LET m == spec.mounts[i]
         IN  \/ m.target = ""
             \/ m.type \in {MountTypeBind, MountTypeVolume} /\ m.source = ""
             \/ m.type = MountTypeTmpfs /\ m.source # ""
    \/ spec.resources.memoryBytes < 0
    \/ spec.resources.cpuQuota < 0
    \/ spec.resources.pidsLimit < 0
    \/ spec.resources.diskBytes < 0

\* C26: Build of a spec that breaks such an invariant, and no security
\* invariant, fails, with an error that is not a security-violation.
C26_InvalidSpecRejected ==
    (/\ built # NoResult
     /\ C26_BreaksInvariant(builder)
     /\ SecurityValidate(builder.security) = "none")
    => ErrorKind(built.err) \notin {"none", "security-violation"}

\* ---- C27
\* C27: every result a backend's Execute returns, on success or on failure,
\* carries the backend's kind.
C27_ResultStamped ==
    [][/\ (\/ \E req \in Requests, optIn \in OptInFlags, c \in BOOLEAN :
                UnsafeExecute(req, optIn, c)
           \/ \E mkdirOk \in BOOLEAN, writeOk \in BOOLEAN :
                UnsafeWorkspace(mkdirOk, writeOk)
           \/ \E ok \in BOOLEAN, fired \in BOOLEAN : UnsafeRun(ok, fired))
          => (bret'.err # "pending" => bret'.kind = Kind("unsafe"))
       /\ (\/ \E req \in Requests, c \in BOOLEAN : DockerExecute(req, c)
           \/ DockerPing
           \/ DockerResolve
           \/ \E ok \in BOOLEAN : DockerRun(ok))
          => (bret'.err # "pending" => bret'.kind = Kind("docker"))]_vars

\* ---- C28
\* C28: a successful result of the container backend reports the tool-call
\* limit as enforced only if the request's gateway enforces a tool-call
\* quota.  (Stated for requests that carry the direct gateway, whose quota
\* is maxToolCalls, 0 meaning none.)
C28_EnforcedOnlyIfEnforced ==
    [][(DockerRun(TRUE) /\ bcall.req.gateway = "direct")
         => (bret'.enforcedToolCalls => maxToolCalls > 0)]_vars

\* ---- C29
\* C29: an execution of the host-subprocess backend that ends because the
\* ambient handle fired, the deadline not having expired, returns cancelled.
\* (Stated for a handle that has fired before the command is run.)
C29_AmbientCancelIsCancelled ==
    [][\A ok \in BOOLEAN, fired \in BOOLEAN :
         (UnsafeRun(ok, fired) /\ bcall.cancelled)
         => bret'.err = "cancelled"]_vars

\* ---- C30
\* The values of the opt-in flag that are not the boolean true.
C30_NotOptedIn == OptInFlags \ {"bool:true"}

\* C30 as stated: with opt-in required, every request without the flag set
\* to true fails with opt-in-required.
C30_OptInAlways ==
    [][\A req \in Requests, optIn \in C30_NotOptedIn, c \in BOOLEAN :
         (bcfg.requireOptIn /\ UnsafeExecute(req, optIn, c))
         => bret'.err = "opt-in-required"]_vars

\* C30, amended: with opt-in required, every request whose metadata does not
\* carry the flag as the boolean true is refused and nothing is executed: no
\* warning, no temporary workspace, no subprocess.  The call fails with
\* opt-in-required when the request is valid, and with the request's
\* validation error otherwise.
C30_OptInRequired ==
    [][(bcfg.requireOptIn /\ bpc = "idle" /\ bkVars' # bkVars)
         => \A req \in Requests, optIn \in C30_NotOptedIn, c \in BOOLEAN :
              UnsafeExecute(req, optIn, c)
         => /\ bret'.err = IF Validate(req) # "none" THEN Validate(req)
                           ELSE "opt-in-required"
            /\ bpc' = "idle"
            /\ bfx' = NoEffects]_vars

\* A backend that requires opt-in and has a logger has refused a request.
C30_Witness ==
    /\ bcfg.requireOptIn
    /\ bcfg.logger
    /\ bpc = "idle"
    /\ bret.err = "opt-in-required"
    /\ bfx = NoEffects


\* ---- C31
\* C31: once Execute of the host-subprocess backend has returned, on any
\* exit path (success, file-write failure, subprocess failure, timeout,
\* cancellation), no temporary workspace created by it remains.  (The
\* deferred os.RemoveAll is taken to remove the directory.)
C31_WorkspaceRemoved ==
    (bpc = "idle") => ~bfx.workspace

\* An execution that created its workspace and was ended by a done context
\* has returned, the workspace gone.
C31_Witness ==
    /\ bpc = "idle"
    /\ bfx.created
    /\ ~bfx.workspace
    /\ bret.err = "timeout"
    /\ bret.kind = BackendUnsafeHost

\* ---- C32
\* C32: in the container backend, when a health checker is configured and
\* its ping fails, Execute fails with daemon-unavailable wrapping the cause
\* (errors.Is finds both daemon-unavailable and the ping's error in the
\* returned error), and neither the image resolver nor the runner is
\* invoked.
C32_UnhealthyDaemon ==
    [][(DockerPing /\ bcfg.health = "down")
         => /\ bpc' = "idle"
            /\ bret'.err = "daemon-unavailable"
            /\ ErrorsIs(bret'.chain, "daemon-unavailable")
            /\ ErrorsIs(bret'.chain, "ping-failed")
            /\ ~bfx'.resolved
            /\ ~bfx'.runner]_vars

\* ---- C33
\* C33: the engine adapter returns limit-exceeded for an error that is a
\* timeout or a resource-limit, execution-failed for one that is a
\* sandbox-violation, and every other error unchanged.
C33_AdapterTranslation ==
    (apc = "idle" /\ aret # NoResult)
    => IF ErrorsIs(aerr, "timeout") \/ ErrorsIs(aerr, "resource-limit")
       THEN /\ ErrorsIs(aret.err, "limit-exceeded")
            /\ ~ErrorsIs(aret.err, "execution-failed")
       ELSE IF ErrorsIs(aerr, "sandbox-violation")
       THEN /\ ErrorsIs(aret.err, "execution-failed")
            /\ ~ErrorsIs(aret.err, "limit-exceeded")
       ELSE aret.err = aerr

\* A timeout inside two RuntimeErrors has come back as limit-exceeded.
C33_Witness ==
    /\ apc = "idle"
    /\ aerr = <<"RuntimeError", "RuntimeError", "timeout">>
    /\ aret # NoResult
    /\ ErrorsIs(aret.err, "limit-exceeded")

\* ---- C34
\* C34: wherever an error is wrapped (a RuntimeError, a backend wrapping a
\* cause, the adapter's translation), errors.Is still identifies the
\* wrapped error as the kind of its innermost cause, at any depth.
C34_InnermostKindPreserved ==
    /\ (aerr # <<>>) => ErrorsIs(aerr, acause)
    /\ (aret # NoResult /\ aerr # <<>>) => ErrorsIs(aret.err, acause)

\* ---- C39
\* C39: during an execution whose limits.max_tool_calls is m > 0, at most m
\* tool invocations are admitted through the request's gateway to the
\* underlying tools.
C39_AdmittedWithinLimit ==
    (alimit > 0) => acalls <= alimit

\* ---- C35
\* The first check a call of Execute fails before the backend lookup, in the
\* order cancelled, missing-gateway, missing-code, invalid-limits.
C35_FirstFailure(req, cancelled) ==
    IF cancelled THEN "cancelled"
    ELSE IF req.gateway = "nil" THEN "missing-gateway"
    ELSE IF req.code = "" THEN "missing-code"
    ELSE IF \E f \in DOMAIN req.limits : req.limits[f] < 0
    THEN "invalid-limits"
    ELSE "none"

\* C35: Execute reports the first failing check in the order cancelled,
\* missing-gateway, missing-code, invalid-limits, runtime-unavailable,
\* backend-denied, whatever later checks the request fails too, and the
\* backend is invoked only if all of them pass.
C35_FirstFailingCheck ==
    /\ [](\A e \in Execs :
            rpc[e] \in {"looked_up", "backend"}
            => C35_FirstFailure(rloc[e].req, FALSE) = "none")
    /\ [](\A e \in Execs :
            rpc[e] = "backend"
            => /\ rloc[e].backend # NoBackend
               /\ ~(rloc[e].isDenied
                    /\ Kind(rloc[e].backend) = BackendUnsafeHost))
    /\ [][\A e \in Execs :
            /\ \A req \in Requests, c \in BOOLEAN :
                 ExecuteLookup(e, req, c)
                 => IF C35_FirstFailure(req, c) # "none"
                    THEN /\ rres'[e].err = C35_FirstFailure(req, c)
                         /\ rpc'[e] = "idle"
                    ELSE rpc'[e] = "looked_up"
            /\ ExecuteDispatch(e)
               => IF rloc[e].backend = NoBackend
                  THEN rres'[e].err = "runtime-unavailable" /\ rpc'[e] = "idle"
                  ELSE IF rloc[e].isDenied
                          /\ Kind(rloc[e].backend) = BackendUnsafeHost
                  THEN rres'[e].err = "backend-denied" /\ rpc'[e] = "idle"
                  ELSE rpc'[e] = "backend"]_vars

\* A request without a gateway (the one that fails every validation among
\* them) has been rejected as missing-gateway, no backend invoked.
C35_Witness ==
    /\ rpc["e1"] = "idle"
    /\ rres["e1"].err = "missing-gateway"
    /\ rres["e1"].kind = ""

\* ---- C36
\* C36: an Execute reads the backend map in one step, so it sees the
\* mapping left by the last RegisterBackend / UnregisterBackend that has
\* returned (a registered backend is the one dispatched to, an unregistered
\* profile gives runtime-unavailable), never a torn one; a mutation touches
\* no Execute under way, and an execution already delegated returns its
\* backend's result whatever happens to the map.
C36_MutationsLinearizable ==
    /\ [][\A e \in Execs, req \in ValidRequests :
            ExecuteLookup(e, req, FALSE)
            => LET profile == EffectiveProfile(req, defaultProfile)
               IN  /\ rloc'[e].backend =
                        (IF profile \in Profiles THEN backends[profile]
                         ELSE NoBackend)
                   /\ rloc'[e].isDenied = (profile \in denyUnsafeProfiles)]_vars
    /\ [][\A e \in Execs :
            ExecuteDispatch(e)
            => IF rloc[e].backend = NoBackend
               THEN rres'[e].err = "runtime-unavailable"
               ELSE IF UnsafeDenied(rloc[e].isDenied, Kind(rloc[e].backend))
               THEN rres'[e].err = "backend-denied"
               ELSE rpc'[e] = "backend"
                    /\ rloc'[e].backend = rloc[e].backend]_vars
    /\ [][(backends' # backends) => UNCHANGED <<rpc, rloc, rres>>]_vars
    /\ [][\A e \in Execs, out \in Outcomes :
            ExecuteReturn(e, out)
            => /\ rres'[e].err = out
               /\ rres'[e].kind = BackendExecute(rloc[e].backend, out).kind]_vars

\* An execution is running in a backend whose profile has been unregistered
\* since.
C36_Witness ==
    \E e \in Execs :
        /\ rpc[e] = "backend"
        /\ rloc[e].profile \in Profiles
        /\ backends[rloc[e].profile] = NoBackend

\* ---- C37
\* C37: on a direct gateway with max_tool_calls = m > 0, whatever the
\* interleaving of run_tool, run_chain, Reset and GetToolCalls, Reset while
\* calls are in flight included, the record list never holds more than m
\* records and the counter never exceeds m.
C37_RecordsAndCounterWithinLimit ==
    (maxToolCalls > 0)
    => /\ Len(GetToolCalls) <= maxToolCalls
       /\ callCount <= maxToolCalls

\* ---- C38
\* C38: the tool_calls of a router result hold only invocations made during
\* that Execute: no record the gateway already held when Execute was called
\* is part of the result the call returns.
C38_OnlyOwnInvocations ==
    \A e \in Execs :
        (rpc[e] = "idle" /\ rres[e].err = "none")
            => \A i \in 1..Len(rres[e].toolCalls) :
                   rres[e].toolCalls[i].inv \notin rsince[e]

\* ---- C40
\* What request id returns when it takes the response on its channel.
C40_Response(id) ==
    {ProxyResult("none", id), ProxyResult("remote-error", 0)}

\* C40 as stated: DeliverResponse never blocks; a waiting request to which
\* the response has been delivered, its handle not cancelled, eventually
\* returns with that response; a waiting request whose handle is cancelled
\* eventually returns cancelled.
C40_CancelledReturnsCancelled ==
    /\ (dpc = "loaded") ~> (dpc = "idle")
    /\ \A p \in Procs, id \in 1..MaxRequests :
         (ppc[p] = "wait" /\ pcall[p].id = id /\ slot[id] # <<>>
          /\ ~pcall[p].cancelled)
         ~> (ppc[p] = "idle" /\ pret[p] \in C40_Response(id))
    /\ \A p \in Procs :
         (ppc[p] = "wait" /\ pcall[p].cancelled)
         ~> (ppc[p] = "idle" /\ pret[p] = ProxyResult("cancelled", 0))

\* C40: DeliverResponse never blocks; a waiting request to which the
\* response has been delivered or whose handle is cancelled eventually
\* returns, and it leaves the wait with that response when its handle is
\* not cancelled, with cancelled when no response is on its channel, and
\* with one of the two when both have happened.
C40_WaitEnds ==
    /\ (dpc = "loaded") ~> (dpc = "idle")
    /\ \A p \in Procs, id \in 1..MaxRequests :
         (ppc[p] = "wait" /\ pcall[p].id = id
          /\ (slot[id] # <<>> \/ pcall[p].cancelled))
         ~> (ppc[p] = "idle"
             /\ pret[p] \in C40_Response(id) \cup {ProxyResult("cancelled", 0)})
    /\ [][\A p \in Procs :
            (ppc[p] = "wait" /\ ppc'[p] = "exit")
            => LET id == pcall[p].id
                   result == pcall'[p].result
               IN  /\ ~pcall[p].cancelled => result \in C40_Response(id)
                   /\ slot[id] = <<>> => result = ProxyResult("cancelled", 0)
                   /\ result \in C40_Response(id)
                                 \cup {ProxyResult("cancelled", 0)}]_vars

\* A request whose handle was cancelled while it waited has returned
\* cancelled.
C40_Witness ==
    \E p \in Procs :
        /\ ppc[p] = "idle"
        /\ pret[p] = ProxyResult("cancelled", 0)
        /\ wire # {}

====
